---- MODULE Spec2Model ----
(***************************************************************************)
(* Verification model of the T VANAMM billing application.                 *)
(*                                                                         *)
(*   SpecId     identity resolution, databaseService.getFranchiseId        *)
(*   SpecStore  the data layer against the backend tables: sessions,       *)
(*              createGeneratedBill, menu writes, read operations          *)
(*   SpecBill   the new-bill screen, both variants, against the backend,   *)
(*              and the spreadsheet export                                 *)
(*   SpecTrend  the trend estimator of predictiveService                   *)
(*   SpecAnalysis  the heuristic recommendations of the analysis screens   *)
(*   SpecReceipt   the receipt text of the new-bill screens                *)
(*   SpecHook   the useAuth hook of one component                          *)
(*   SpecForm   login, sign-up and the change-password screens             *)
(*   SpecServer the auth users of the backend, delete_user and             *)
(*              update_store_password                                      *)
(*   SpecSave   createGeneratedBill alone: sessions and the calls          *)
(*   SpecCart   the cart of the new-bill screen over a menu of two items   *)
(*   SpecDash   the load effect of the analytics screens                   *)
(*   SpecApp    routes and the auth session: login, Logout, index route    *)
(*                                                                         *)
(* Strings that the code takes apart (emails, franchise identifiers) are   *)
(* sequences of one-character strings, so that startsWith, split, replace  *)
(* and toUpperCase are computed character by character as the code does.   *)
(* A JavaScript value that may be null/undefined is a sequence of length   *)
(* 0 (absent) or 1 (present).                                              *)
(***************************************************************************)
EXTENDS Integers, Sequences, FiniteSets, TLC

VARIABLES
  authUser,      \* supabase.auth: the signed-in user, absent when signed out
  profileRow,    \* profiles table: the row keyed by that user's id, if any
  acct,          \* how the account's email was built (kind, local, frid)
  idPc,          \* position of the running getFranchiseId call
  idUser,        \* getFranchiseId: const user
  idData,        \* getFranchiseId: const { data } of the profiles query
  idResult,      \* what getFranchiseId returned or threw
  nGetUser,      \* number of supabase.auth.getUser() calls issued
  nProfileQuery, \* number of profiles queries issued
  \* backend tables
  bills,         \* bills_generated_billing rows
  bill_items,    \* bill_items_generated_billing rows
  menu_items,    \* menu_items rows
  menuSeq,       \* last id handed out by the menu_items id sequence
  today,         \* the calendar day the backend stamps into created_at
  \* NewBillScreen component state
  variant,       \* which new-bill screen runs: "done" (Print/Done) or "pay"
  menuItems, billItems, showBillModal, previewItems, previewTotal,
  paymentMethod, isPrinting, printerConnected,
  alert,         \* title of the last Alert.alert shown
  previewNo,     \* how many previews generateBill has opened
  printing,      \* the preview whose receipt is being sent (0: none)
  printed,       \* previews whose receipt reached the printer / share sheet
  calls,         \* createGeneratedBill invocations, in order of invocation
  lastRead,      \* the query and result of a read operation, until the
                 \* next operation of the data layer begins
  trend,         \* one item of getRecommendations step 4: its dayMap, the
                 \* lookbackDays argument and the recommendation pushed
  analysis,      \* PredictiveAnalysisScreen: the aggregated items loaded
                 \* and the recs state set from them
  receipt,       \* the receipt of a preview: the builder that runs, its
                 \* inputs and the text it returns
  hook,          \* useAuth: user and loading, the isMounted flag of the
                 \* effect, the getSession request and the notifications
  form,          \* a form screen: its fields and the last run of its handler
  server,        \* the auth users of the backend, the session of the
                 \* client and the last request served
  dash,          \* an analytics screen: its date selection, the loads its
                 \* effect started and the figures it shows
  app            \* the route shown, the stored auth session and the user
                 \* and loading values of useAuth at the index route

idVars == <<authUser, profileRow, acct, idPc, idUser, idData, idResult,
            nGetUser, nProfileQuery>>

storeVars == <<bills, bill_items, menu_items, menuSeq, today>>

screenVars == <<variant, menuItems, billItems, showBillModal, previewItems,
                previewTotal, paymentMethod, isPrinting, printerConnected,
                alert, previewNo, printing, printed>>

billVars == <<storeVars, screenVars, calls, lastRead>>

uiVars == <<analysis, receipt, hook, form>>

svcVars == <<server, dash, app>>

vars == <<idVars, billVars, trend, uiVars, svcVars>>

----------------------------------------------------------------------------
(* JavaScript string primitives                                            *)

None == << >>
Some(v) == <<v>>

toUpperCaseChar(c) ==
  CASE c = "a" -> "A" [] c = "b" -> "B" [] c = "c" -> "C" [] c = "d" -> "D"
    [] c = "e" -> "E" [] c = "f" -> "F" [] c = "g" -> "G" [] c = "h" -> "H"
    [] c = "i" -> "I" [] c = "j" -> "J" [] c = "k" -> "K" [] c = "l" -> "L"
    [] c = "m" -> "M" [] c = "n" -> "N" [] c = "o" -> "O" [] c = "p" -> "P"
    [] c = "q" -> "Q" [] c = "r" -> "R" [] c = "s" -> "S" [] c = "t" -> "T"
    [] c = "u" -> "U" [] c = "v" -> "V" [] c = "w" -> "W" [] c = "x" -> "X"
    [] c = "y" -> "Y" [] c = "z" -> "Z" [] OTHER -> c

toLowerCaseChar(c) ==
  CASE c = "A" -> "a" [] c = "B" -> "b" [] c = "C" -> "c" [] c = "D" -> "d"
    [] c = "E" -> "e" [] c = "F" -> "f" [] c = "G" -> "g" [] c = "H" -> "h"
    [] c = "I" -> "i" [] c = "J" -> "j" [] c = "K" -> "k" [] c = "L" -> "l"
    [] c = "M" -> "m" [] c = "N" -> "n" [] c = "O" -> "o" [] c = "P" -> "p"
    [] c = "Q" -> "q" [] c = "R" -> "r" [] c = "S" -> "s" [] c = "T" -> "t"
    [] c = "U" -> "u" [] c = "V" -> "v" [] c = "W" -> "w" [] c = "X" -> "x"
    [] c = "Y" -> "y" [] c = "Z" -> "z" [] OTHER -> c

toUpperCase(s) == [i \in 1..Len(s) |-> toUpperCaseChar(s[i])]
toLowerCase(s) == [i \in 1..Len(s) |-> toLowerCaseChar(s[i])]

startsWith(s, p) == Len(s) >= Len(p) /\ SubSeq(s, 1, Len(p)) = p

\* 1-based position of the first occurrence of p in s, 0 when there is none
indexOf(s, p) ==
  LET hits == {i \in 1..(Len(s) - Len(p) + 1) : SubSeq(s, i, i + Len(p) - 1) = p}
  IN IF hits = {} THEN 0 ELSE CHOOSE i \in hits : \A j \in hits : i <= j

includes(s, p) == indexOf(s, p) # 0

\* String.prototype.split with a non-empty string separator
RECURSIVE split(_, _)
split(s, sep) ==
  LET i == indexOf(s, sep)
  IN IF i = 0 THEN <<s>>
     ELSE <<SubSeq(s, 1, i - 1)>> \o split(SubSeq(s, i + Len(sep), Len(s)), sep)

\* s.replace(/^FR-/, '')
replaceLeadingFR(s) ==
  IF startsWith(s, <<"F", "R", "-">>) THEN SubSeq(s, 4, Len(s)) ELSE s

----------------------------------------------------------------------------
(* databaseService.getFranchiseId                                          *)

STORE_DOT == <<"s", "t", "o", "r", "e", ".">>
PLUS == <<"+">>
AT == <<"@">>
CENTRAL == <<"C", "E", "N", "T", "R", "A", "L">>

CentralRoute == "/(tabs)/central_dashboard"
AdminRoute == "/(tabs)/admin-dashboard-billing"

\* data?.franchise_id is truthy
hasFranchiseId(data) ==
  /\ data # None
  /\ data[1].franchise_id # None
  /\ data[1].franchise_id[1] # << >>

\* user.email || ''
emailOrEmpty(user) == IF user.email = None THEN << >> ELSE user.email[1]

\* lines 87-103: the value of fullId, None when the function throws
fullId_emailFirst(user, data) ==
  LET email == emailOrEmpty(user)
  IN IF startsWith(email, STORE_DOT)
       THEN Some(toUpperCase(split(split(email, STORE_DOT)[2], AT)[1]))
     ELSE IF includes(email, PLUS)
       THEN Some(toUpperCase(split(split(email, PLUS)[2], AT)[1]))
     ELSE IF hasFranchiseId(data) THEN Some(data[1].franchise_id[1])
     ELSE None

fullId_noThrow(user, data) ==
  IF hasFranchiseId(data) THEN Some(data[1].franchise_id[1])
  ELSE LET email == emailOrEmpty(user)
       IN IF startsWith(email, STORE_DOT)
            THEN Some(toUpperCase(split(split(email, STORE_DOT)[2], AT)[1]))
          ELSE IF includes(email, PLUS)
            THEN Some(toUpperCase(split(split(email, PLUS)[2], AT)[1]))
          ELSE Some(toUpperCase(split(email, AT)[1]))

fullId(user, data) ==
  IF hasFranchiseId(data) THEN Some(data[1].franchise_id[1])
  ELSE LET email == emailOrEmpty(user)
       IN IF startsWith(email, STORE_DOT)
            THEN Some(toUpperCase(split(split(email, STORE_DOT)[2], AT)[1]))
          ELSE IF includes(email, PLUS)
            THEN Some(toUpperCase(split(split(email, PLUS)[2], AT)[1]))
          ELSE None

\* line 106
baseId(fid) == toUpperCase(replaceLeadingFR(fid))

\* lines 109-112
dashboardRoute(fid) == IF baseId(fid) = CENTRAL THEN CentralRoute ELSE AdminRoute

NoResult == [kind |-> "none", franchise_id |-> << >>, dashboardRoute |-> "",
             message |-> ""]
Thrown(msg) == [kind |-> "error", franchise_id |-> << >>, dashboardRoute |-> "",
                message |-> msg]

\* lines 87-114: what the call returns once user and data are known
FranchiseInfo(user, data) ==
  LET f == fullId(user, data)
  IN IF f = None THEN Thrown("Franchise ID not found in profile or email")
     ELSE [kind |-> "ok", franchise_id |-> f[1],
           dashboardRoute |-> dashboardRoute(f[1]), message |-> ""]

----------------------------------------------------------------------------
(* Accounts and profile rows the identity resolution is run on             *)

\* franchise identifiers as they appear inside an email alias
Frid_fr12 == <<"f", "r", "-", "1", "2">>
Frid_FR9 == <<"F", "R", "-", "9">>
Frid_frcentral == <<"f", "r", "-", "c", "e", "n", "t", "r", "a", "l">>
Frid_CENTRAL == <<"C", "E", "N", "T", "R", "A", "L">>
Frid_frstore1 == <<"f", "r", "-", "s", "t", "o", "r", "e", ".", "1">>
Frid_fr1plus2 == <<"f", "r", "-", "1", "+", "2">>
AliasFrids == {Frid_fr12, Frid_FR9, Frid_frcentral, Frid_CENTRAL, Frid_frstore1,
               Frid_fr1plus2}

Local_jane == <<"j", "a", "n", "e">>
Local_aplusb == <<"a", "+", "b">>
Local_storej == <<"s", "t", "o", "r", "e", ".", "j">>
Local_plain == <<"p", "l", "a", "i", "n">>
AliasLocals == {Local_jane, Local_aplusb, Local_storej}

Domain_x == <<"x", ".", "c", "o", "m">>
Domain_store == <<"y", "o", "u", "r", "d", "o", "m", "a", "i", "n", ".", "c", "o", "m">>

\* franchise_id values a profiles row may hold
Stored_FR7 == <<"F", "R", "-", "7">>
Stored_FRCENTRAL == <<"F", "R", "-", "C", "E", "N", "T", "R", "A", "L">>
Stored_frcentral == <<"f", "r", "-", "c", "e", "n", "t", "r", "a", "l">>
Stored_CENTRAL == <<"C", "E", "N", "T", "R", "A", "L">>
Stored_FRcentral == <<"F", "R", "-", "c", "e", "n", "t", "r", "a", "l">>
Stored_central == <<"c", "e", "n", "t", "r", "a", "l">>
StoredIds == {Stored_FR7, Stored_FRCENTRAL, Stored_frcentral, Stored_CENTRAL,
              Stored_FRcentral, Stored_central}

Accts ==
  {[kind |-> "store", local |-> << >>, frid |-> f] : f \in AliasFrids}
  \cup {[kind |-> "admin", local |-> l, frid |-> f] : l \in AliasLocals, f \in AliasFrids}
  \cup {[kind |-> k, local |-> Local_plain, frid |-> << >>] : k \in {"plain", "empty", "none"}}

\* the email address of an account: store.<frid>@domain, <local>+<frid>@domain,
\* an address with neither pattern, the empty string, or no email at all
EmailOf(a) ==
  CASE a.kind = "store" -> Some(STORE_DOT \o a.frid \o AT \o Domain_store)
    [] a.kind = "admin" -> Some(a.local \o PLUS \o a.frid \o AT \o Domain_x)
    [] a.kind = "plain" -> Some(a.local \o AT \o Domain_x)
    [] a.kind = "empty" -> Some(<< >>)
    [] OTHER -> None

Profiles ==
  {None, Some([franchise_id |-> None]), Some([franchise_id |-> Some(<< >>)])}
  \cup {Some([franchise_id |-> Some(v)]) : v \in StoredIds}

\* the tables and the new-bill screen at rest, for specifications that do
\* not run them
NoRead == [op |-> "none", caller |-> None, filter |-> None, bills |-> {},
           items |-> {}, menu |-> {}, totals |-> {}, recs |-> {}, value |-> 0,
           rows |-> {}]

\* the estimator at rest
NoTrend == [pc |-> "idle", dayMap |-> << >>, lookbackDays |-> 0,
            recommendation |-> << >>]

IdleBill ==
  /\ bills = {} /\ bill_items = {} /\ menu_items = {} /\ menuSeq = 0 /\ today = 1
  /\ variant = "done" /\ menuItems = {} /\ billItems = << >>
  /\ showBillModal = FALSE /\ previewItems = << >> /\ previewTotal = 0
  /\ paymentMethod = "Cash" /\ isPrinting = FALSE /\ printerConnected = FALSE
  /\ alert = "" /\ previewNo = 0 /\ printing = 0 /\ printed = {}
  /\ calls = << >> /\ lastRead = NoRead

NoUser == [id |-> "", email |-> None]

\* nobody signed in and no getFranchiseId call running
IdleId ==
  /\ acct = [kind |-> "none", local |-> Local_plain, frid |-> << >>]
  /\ authUser = None /\ profileRow = None
  /\ idPc = "idle" /\ idUser = NoUser /\ idData = None /\ idResult = NoResult
  /\ nGetUser = 0 /\ nProfileQuery = 0

\* the predictive-analysis screen not opened
NoAnalysis == [pc |-> "idle", screen |-> "", data |-> << >>, recs |-> << >>]

\* no receipt being built
NoReceipt == [pc |-> "idle", builder |-> "", items |-> << >>, total |-> 0,
              method |-> "Cash", now |-> "", text |-> ""]

\* no component using useAuth
NoHook == [mounted |-> FALSE, isMounted |-> FALSE, user |-> None,
           loading |-> TRUE, getSession |-> "none", subscribed |-> FALSE,
           session |-> None, queue |-> << >>, emitted |-> 0]

\* no form screen open
NoForm == [screen |-> "", userType |-> "store", storeId |-> << >>,
           franchiseId |-> << >>, email |-> << >>, password |-> "",
           name |-> << >>, oldPwd |-> "", newPwd |-> "",
           last |-> [handler |-> "", calls |-> << >>, alerts |-> << >>,
                     route |-> << >>]]

\* no auth user registered, nobody signed in
NoServer == [users |-> {}, session |-> << >>, nextId |-> 1,
             last |-> [op |-> ""]]

\* no analytics screen open
NoDash == [screen |-> "", start |-> 0, loads |-> << >>]

\* the app not started
NoApp == [route |-> "", session |-> << >>]

IdleSvc == server = NoServer /\ dash = NoDash /\ app = NoApp

IdleUi ==
  /\ analysis = NoAnalysis
  /\ receipt = NoReceipt
  /\ hook = NoHook
  /\ form = NoForm
  /\ IdleSvc

InitId ==
  /\ acct \in Accts
  /\ profileRow \in Profiles
  /\ authUser \in {None, Some([id |-> "u1", email |-> EmailOf(acct)])}
  /\ idPc = "idle"
  /\ idUser = NoUser
  /\ idData = None
  /\ idResult = NoResult
  /\ nGetUser = 0
  /\ nProfileQuery = 0
  /\ IdleBill
  /\ trend = NoTrend
  /\ IdleUi

\* line 78: getFranchiseId is called and awaits getCurrentUserInfo
getFranchiseId_call ==
  /\ idPc = "idle"
  /\ idPc' = "getUser"
  /\ nGetUser' = nGetUser + 1
  /\ UNCHANGED <<authUser, profileRow, acct, idUser, idData, idResult, nProfileQuery>>
  /\ UNCHANGED <<billVars, trend, uiVars, svcVars>>

\* lines 64-71 and 81-85: supabase.auth.getUser() answers; without a user (or
\* with an error) the call throws, otherwise the profiles query is issued
getCurrentUserInfo_return ==
  /\ idPc = "getUser"
  /\ \E failed \in BOOLEAN :
       IF failed \/ authUser = None
         THEN /\ idResult' = Thrown("User not found")
              /\ idPc' = "done"
              /\ UNCHANGED <<idUser, nProfileQuery>>
         ELSE /\ idUser' = authUser[1]
              /\ idPc' = "profiles"
              /\ nProfileQuery' = nProfileQuery + 1
              /\ UNCHANGED idResult
  /\ UNCHANGED <<authUser, profileRow, acct, idData, nGetUser>>
  /\ UNCHANGED <<billVars, trend, uiVars, svcVars>>

\* lines 81-115: the profiles query answers (data is null when the query
\* fails or finds no row: .single()), and the function returns or throws
getFranchiseId_return ==
  /\ idPc = "profiles"
  /\ \E failed \in BOOLEAN :
       /\ idData' = IF failed THEN None ELSE profileRow
       /\ idResult' = FranchiseInfo(idUser, idData')
  /\ idPc' = "done"
  /\ UNCHANGED <<authUser, profileRow, acct, idUser, nGetUser, nProfileQuery>>
  /\ UNCHANGED <<billVars, trend, uiVars, svcVars>>

NextId == getFranchiseId_call \/ getCurrentUserInfo_return \/ getFranchiseId_return

SpecId == InitId /\ [][NextId]_vars

----------------------------------------------------------------------------
(* Sessions, backend tables                                                *)

MaxCalls == 1
MaxSaves == 2
MaxQty == 2
MaxDay == 1
MaxPreviews == 1
MaxMenuId == 2

FR_12 == toUpperCase(Frid_fr12)

\* the accounts that sign in: a store account resolved through its email
\* alias, an admin with a profile row, and the central admin
User_store12 == [id |-> "u-store12",
                 email |-> Some(STORE_DOT \o Frid_fr12 \o AT \o Domain_store)]
User_admin7 == [id |-> "u-admin7",
                email |-> Some(Local_jane \o PLUS \o Stored_FR7 \o AT \o Domain_x)]
User_central == [id |-> "u-central",
                 email |-> Some(Local_jane \o PLUS \o Stored_FRCENTRAL \o AT \o Domain_x)]
Users == {User_store12, User_admin7, User_central}

\* the profiles row handleSignup wrote for a user
profileOf(u) ==
  CASE u = User_admin7 -> Some([franchise_id |-> Some(Stored_FR7)])
    [] u = User_central -> Some([franchise_id |-> Some(Stored_FRCENTRAL)])
    [] OTHER -> None

FranchiseIds == {FR_12, Stored_FR7, Stored_FRCENTRAL}

\* getFranchiseId for the current session
getFranchiseId ==
  IF authUser = None THEN Thrown("User not found")
  ELSE FranchiseInfo(authUser[1], profileRow)

InitialMenu ==
  {[id |-> 1, name |-> "Tea", price |-> 10, category |-> "Drinks",
    franchise_id |-> FR_12, created_by |-> "u-store12"]}

\* what the menu editor submits
NewMenuItem == [name |-> "Bun", price |-> 15, category |-> "Snacks"]
NewPrices == {20}

\* the days a date-range query may name
Days == 1..MaxDay

RECURSIVE SumSeq(_)
SumSeq(s) == IF s = << >> THEN 0 ELSE Head(s) + SumSeq(Tail(s))

RECURSIVE SumSet(_)
SumSet(S) == IF S = {} THEN 0
             ELSE LET x == CHOOSE x \in S : TRUE IN x[2] + SumSet(S \ {x})

Max(a, b) == IF a >= b THEN a ELSE b

InitBill ==
  /\ acct = [kind |-> "none", local |-> Local_plain, frid |-> << >>]
  /\ idPc = "idle" /\ idUser = NoUser /\ idData = None /\ idResult = NoResult
  /\ nGetUser = 0 /\ nProfileQuery = 0
  /\ \E u \in Users : authUser = Some(u) /\ profileRow = profileOf(u)
  /\ bills = {} /\ bill_items = {} /\ menu_items = InitialMenu /\ menuSeq = 1
  /\ today = 1
  /\ variant \in {"done", "pay"}
  /\ menuItems = {} /\ billItems = << >>
  /\ showBillModal = FALSE /\ previewItems = << >> /\ previewTotal = 0
  /\ paymentMethod = "Cash" /\ isPrinting = FALSE /\ printerConnected = FALSE
  /\ alert = "" /\ previewNo = 0 /\ printing = 0 /\ printed = {}
  /\ calls = << >> /\ lastRead = NoRead
  /\ trend = NoTrend
  /\ IdleUi

\* no getFranchiseId call of SpecId and no estimator run is under way
idUnchanged ==
  UNCHANGED <<acct, idPc, idUser, idData, idResult, nGetUser, nProfileQuery,
              trend, uiVars, svcVars>>
sessionUnchanged == UNCHANGED <<authUser, profileRow>> /\ idUnchanged

\* useAuth handleLogin: another account signs in; the new-bill screen is
\* mounted afresh
signIn(u) ==
  /\ authUser # Some(u)
  /\ authUser' = Some(u)
  /\ profileRow' = profileOf(u)
  /\ menuItems' = {} /\ billItems' = << >>
  /\ showBillModal' = FALSE /\ previewItems' = << >> /\ previewTotal' = 0
  /\ paymentMethod' = "Cash" /\ isPrinting' = FALSE /\ printerConnected' = FALSE
  /\ lastRead' = NoRead
  /\ idUnchanged
  /\ UNCHANGED <<storeVars, variant, alert, previewNo, printing, printed, calls>>

----------------------------------------------------------------------------
(* databaseService: menu operations                                        *)

\* getMenuItems: select * from menu_items where franchise_id = <resolved>
getMenuItems_rows(fid) == {m \in menu_items : m.franchise_id = fid}

\* NewBillScreen.fetchMenuItems: getFranchiseId, getMenuItems, setMenuItems
fetchMenuItems ==
  /\ \E failed \in BOOLEAN :
       LET info == getFranchiseId
       IN IF failed \/ info.kind # "ok"
            THEN alert' = "Error" /\ UNCHANGED menuItems
            ELSE menuItems' = getMenuItems_rows(info.franchise_id) /\ UNCHANGED alert
  /\ sessionUnchanged
  /\ UNCHANGED <<storeVars, variant, billItems, showBillModal, previewItems,
                 previewTotal, paymentMethod, isPrinting, printerConnected,
                 previewNo, printing, printed, calls, lastRead>>

\* addMenuItem: insert {...item, franchise_id, created_by}
addMenuItem(item) ==
  /\ menuSeq < MaxMenuId
  /\ getFranchiseId.kind = "ok"
  /\ \E failed \in BOOLEAN :
       IF failed THEN UNCHANGED <<menu_items, menuSeq>>
       ELSE /\ menuSeq' = menuSeq + 1
            /\ menu_items' = menu_items \cup
                 {[id |-> menuSeq + 1, name |-> item.name, price |-> item.price,
                   category |-> item.category,
                   franchise_id |-> getFranchiseId.franchise_id,
                   created_by |-> authUser[1].id]}
  /\ lastRead' = NoRead
  /\ sessionUnchanged
  /\ UNCHANGED <<bills, bill_items, today, screenVars, calls>>

\* updateMenuItem: update menu_items set <updates> where id = id and
\* franchise_id = <resolved>
updateMenuItem(id, price) ==
  /\ getFranchiseId.kind = "ok"
  /\ \E failed \in BOOLEAN :
       IF failed THEN UNCHANGED menu_items
       ELSE menu_items' =
              {IF m.id = id /\ m.franchise_id = getFranchiseId.franchise_id
                 THEN [m EXCEPT !.price = price] ELSE m : m \in menu_items}
  /\ lastRead' = NoRead
  /\ sessionUnchanged
  /\ UNCHANGED <<bills, bill_items, menuSeq, today, screenVars, calls>>

\* deleteMenuItem: delete from menu_items where id = id and franchise_id =
\* <resolved>
deleteMenuItem_cascade(id) ==
  /\ getFranchiseId.kind = "ok"
  /\ menu_items' = {m \in menu_items :
                      ~(m.id = id /\ m.franchise_id = getFranchiseId.franchise_id)}
  /\ bill_items' = {r \in bill_items :
                      ~(r.menu_item_id = id /\ r.franchise_id = getFranchiseId.franchise_id)}
  /\ lastRead' = NoRead
  /\ sessionUnchanged
  /\ UNCHANGED <<bills, menuSeq, today, screenVars, calls>>

deleteMenuItem(id) ==
  /\ getFranchiseId.kind = "ok"
  /\ \E failed \in BOOLEAN :
       IF failed THEN UNCHANGED menu_items
       ELSE menu_items' =
              {m \in menu_items :
                 ~(m.id = id /\ m.franchise_id = getFranchiseId.franchise_id)}
  /\ lastRead' = NoRead
  /\ sessionUnchanged
  /\ UNCHANGED <<bills, bill_items, menuSeq, today, screenVars, calls>>

----------------------------------------------------------------------------
(* NewBillScreen: the cart                                                 *)

inCart(id) == \E i \in DOMAIN billItems : billItems[i].id = id

\* addToBill; the Modal covers the screen while the preview is shown
addToBill(item) ==
  /\ ~showBillModal
  /\ \A i \in DOMAIN billItems :
       billItems[i].id = item.id => billItems[i].qty < MaxQty
  /\ billItems' =
       IF inCart(item.id)
         THEN [i \in DOMAIN billItems |->
                 IF billItems[i].id = item.id
                   THEN [billItems[i] EXCEPT !.qty = @ + 1] ELSE billItems[i]]
         ELSE Append(billItems, [qty |-> 1] @@ item)
  /\ sessionUnchanged
  /\ UNCHANGED <<storeVars, variant, menuItems, showBillModal, previewItems,
                 previewTotal, paymentMethod, isPrinting, printerConnected,
                 alert, previewNo, printing, printed, calls, lastRead>>

\* updateQty without the floor of Math.max(1, ...)
updateQty_noFloor(id, delta) ==
  /\ ~showBillModal
  /\ inCart(id)
  /\ billItems' = [i \in DOMAIN billItems |->
                     IF billItems[i].id = id
                       THEN [billItems[i] EXCEPT !.qty = @ + delta]
                       ELSE billItems[i]]
  /\ sessionUnchanged
  /\ UNCHANGED <<storeVars, variant, menuItems, showBillModal, previewItems,
                 previewTotal, paymentMethod, isPrinting, printerConnected,
                 alert, previewNo, printing, printed, calls, lastRead>>

updateQty(id, delta) ==
  /\ ~showBillModal
  /\ inCart(id)
  /\ \A i \in DOMAIN billItems :
       billItems[i].id = id => billItems[i].qty + delta <= MaxQty
  /\ billItems' = [i \in DOMAIN billItems |->
                     IF billItems[i].id = id
                       THEN [billItems[i] EXCEPT !.qty = Max(1, @ + delta)]
                       ELSE billItems[i]]
  /\ sessionUnchanged
  /\ UNCHANGED <<storeVars, variant, menuItems, showBillModal, previewItems,
                 previewTotal, paymentMethod, isPrinting, printerConnected,
                 alert, previewNo, printing, printed, calls, lastRead>>

removeItem(id) ==
  /\ ~showBillModal
  /\ inCart(id)
  /\ billItems' = SelectSeq(billItems, LAMBDA b : b.id # id)
  /\ sessionUnchanged
  /\ UNCHANGED <<storeVars, variant, menuItems, showBillModal, previewItems,
                 previewTotal, paymentMethod, isPrinting, printerConnected,
                 alert, previewNo, printing, printed, calls, lastRead>>

\* const total = billItems.reduce((sum, b) => sum + b.price * b.qty, 0)
total == SumSeq([i \in DOMAIN billItems |-> billItems[i].price * billItems[i].qty])

generateBill ==
  /\ ~showBillModal
  /\ IF billItems = << >>
       THEN /\ alert' = "Info"
            /\ UNCHANGED <<billItems, previewItems, previewTotal, showBillModal,
                           paymentMethod, previewNo>>
       ELSE /\ previewNo < MaxPreviews
            /\ previewItems' = billItems
            /\ previewTotal' = total
            /\ showBillModal' = TRUE
            /\ billItems' = << >>
            /\ paymentMethod' = "Cash"
            /\ previewNo' = previewNo + 1
            /\ UNCHANGED alert
  /\ sessionUnchanged
  /\ UNCHANGED <<storeVars, variant, menuItems, isPrinting, printerConnected,
                 printing, printed, calls, lastRead>>

\* Modal onRequestClose
onRequestClose ==
  /\ showBillModal
  /\ showBillModal' = FALSE
  /\ sessionUnchanged
  /\ UNCHANGED <<storeVars, variant, menuItems, billItems, previewItems,
                 previewTotal, paymentMethod, isPrinting, printerConnected,
                 alert, previewNo, printing, printed, calls, lastRead>>

\* the Cash / UPI toggle of the Print/Done screen
setPaymentMethod(m) ==
  /\ variant = "done"
  /\ showBillModal
  /\ paymentMethod # m
  /\ paymentMethod' = m
  /\ sessionUnchanged
  /\ UNCHANGED <<storeVars, variant, menuItems, billItems, showBillModal,
                 previewItems, previewTotal, isPrinting, printerConnected,
                 alert, previewNo, printing, printed, calls, lastRead>>

----------------------------------------------------------------------------
(* databaseService.createGeneratedBill and the handlers that call it       *)

\* previewItems.map(b => ({menu_item_id, item_name, qty, price: b.price * b.qty,
\* franchise_id}))
itemsToInsert(items) ==
  [i \in DOMAIN items |->
     [menu_item_id |-> items[i].id, item_name |-> items[i].name,
      qty |-> items[i].qty, price |-> items[i].price * items[i].qty,
      franchise_id |-> items[i].franchise_id]]

NewCall(origin, billTotal, items, method) ==
  [pc |-> "getFranchiseId", origin |-> origin, preview |-> previewNo,
   billTotal |-> billTotal, items |-> items, modePayment |-> method,
   user |-> "", franchise_id |-> << >>, billId |-> 0, outcome |-> "pending"]

\* a screen calls createGeneratedBill(billTotal, items, modePayment) for a
\* cart of one line
createGeneratedBill(m, qty, modePayment) ==
  /\ Len(calls) < MaxCalls
  /\ calls' = Append(calls,
       NewCall("screen", m.price * qty,
               itemsToInsert(<<[qty |-> qty] @@ m>>), modePayment))
  /\ lastRead' = NoRead
  /\ sessionUnchanged
  /\ UNCHANGED <<storeVars, screenVars>>

\* the Done button: finalizeBill up to its await
finalizeBill ==
  /\ variant = "done"
  /\ showBillModal
  /\ Len(calls) < MaxSaves
  /\ calls' = Append(calls, NewCall("finalizeBill", previewTotal, itemsToInsert(previewItems),
                               paymentMethod))
  /\ sessionUnchanged
  /\ UNCHANGED <<storeVars, screenVars, lastRead>>

\* a payment button (disabled while isPrinting): handlePaymentMethodSelect up
\* to its first await
handlePaymentMethodSelect(method) ==
  /\ variant = "pay"
  /\ showBillModal
  /\ ~isPrinting
  /\ Len(calls) < MaxSaves
  /\ paymentMethod' = method
  /\ isPrinting' = TRUE
  /\ calls' = Append(calls, NewCall("handlePaymentMethodSelect", previewTotal,
                               itemsToInsert(previewItems), method))
  /\ sessionUnchanged
  /\ UNCHANGED <<storeVars, variant, menuItems, billItems, showBillModal,
                 previewItems, previewTotal, printerConnected, alert,
                 previewNo, printing, printed, lastRead>>

\* createGeneratedBill threw in call c, and the request that failed is
\* issued again
callThrew_retry(c) ==
  /\ calls' = [calls EXCEPT ![c].outcome = "threw"]
  /\ UNCHANGED <<alert, isPrinting, showBillModal>>

\* createGeneratedBill threw in call c: the catch (and finally) of the handler
\* that awaited it
callThrew(c) ==
  /\ calls' = [calls EXCEPT ![c].pc = "done", ![c].outcome = "threw"]
  /\ CASE calls[c].origin = "finalizeBill" ->
            /\ alert' = "Error"
            /\ UNCHANGED <<isPrinting, showBillModal>>
       [] calls[c].origin = "handlePaymentMethodSelect" ->
            /\ alert' = "Printing Error"
            /\ isPrinting' = FALSE
            /\ showBillModal' = FALSE
       [] OTHER -> UNCHANGED <<alert, isPrinting, showBillModal>>

\* line 176: const { user, franchise_id } = await this.getFranchiseId()
createGeneratedBill_getFranchiseId(c) ==
  /\ calls[c].pc = "getFranchiseId"
  /\ \E failed \in BOOLEAN :
       IF failed \/ getFranchiseId.kind # "ok"
         THEN callThrew(c)
         ELSE /\ calls' = [calls EXCEPT ![c].pc = "insertBill",
                             ![c].user = authUser[1].id,
                             ![c].franchise_id = getFranchiseId.franchise_id]
              /\ UNCHANGED <<alert, isPrinting, showBillModal>>
  /\ sessionUnchanged
  /\ UNCHANGED <<storeVars, variant, menuItems, billItems, previewItems,
                 previewTotal, paymentMethod, printerConnected, previewNo,
                 printing, printed>>
  /\ lastRead' = NoRead

\* lines 178-192: the header insert answers
createGeneratedBill_insertBill(c) ==
  /\ calls[c].pc = "insertBill"
  /\ \E failed \in BOOLEAN :
       IF failed
         THEN callThrew(c) /\ UNCHANGED bills
         ELSE /\ bills' = bills \cup
                   {[id |-> Cardinality(bills) + 1, total |-> calls[c].billTotal,
                     created_by |-> calls[c].user,
                     franchise_id |-> calls[c].franchise_id,
                     mode_payment |-> calls[c].modePayment,
                     created_at |-> today]}
              /\ calls' = [calls EXCEPT ![c].pc = "insertItems",
                             ![c].billId = Cardinality(bills) + 1]
              /\ UNCHANGED <<alert, isPrinting, showBillModal>>
  /\ sessionUnchanged
  /\ UNCHANGED <<bill_items, menu_items, menuSeq, today, variant, menuItems,
                 billItems, previewItems, previewTotal, paymentMethod,
                 printerConnected, previewNo, printing, printed>>
  /\ lastRead' = NoRead

\* the rows of lines 197-204
itemRows(call) ==
  {[id |-> Cardinality(bill_items) + i, bill_id |-> call.billId,
    menu_item_id |-> call.items[i].menu_item_id,
    item_name |-> call.items[i].item_name, qty |-> call.items[i].qty,
    price |-> call.items[i].price, franchise_id |-> call.franchise_id]
     : i \in DOMAIN call.items}

\* lines 194-209: the item insert answers; on success the call returns and
\* the awaiting handler goes on
createGeneratedBill_insertItems(c) ==
  /\ calls[c].pc = "insertItems"
  /\ \E failed \in BOOLEAN :
       IF failed
         THEN callThrew(c) /\ UNCHANGED bill_items
         ELSE /\ bill_items' = bill_items \cup itemRows(calls[c])
              /\ CASE calls[c].origin = "finalizeBill" ->
                        /\ calls' = [calls EXCEPT ![c].pc = "done",
                                       ![c].outcome = "returned"]
                        /\ showBillModal' = FALSE
                   [] calls[c].origin = "handlePaymentMethodSelect" ->
                        /\ calls' = [calls EXCEPT ![c].pc = "openURL",
                                       ![c].outcome = "returned"]
                        /\ UNCHANGED showBillModal
                   [] OTHER ->
                        /\ calls' = [calls EXCEPT ![c].pc = "done",
                                       ![c].outcome = "returned"]
                        /\ UNCHANGED showBillModal
              /\ UNCHANGED <<alert, isPrinting>>
  /\ sessionUnchanged
  /\ UNCHANGED <<bills, menu_items, menuSeq, today, variant, menuItems,
                 billItems, previewItems, previewTotal, paymentMethod,
                 printerConnected, previewNo, printing, printed>>
  /\ lastRead' = NoRead

\* part_005 lines 141-167: the receipt is handed to rawbt: or, failing that,
\* to the intent: URL; then the finally block
handlePaymentMethodSelect_openURL(c) ==
  /\ calls[c].pc = "openURL"
  /\ \E opened \in BOOLEAN :
       IF opened
         THEN printed' = printed \cup {calls[c].preview} /\ UNCHANGED alert
         ELSE alert' = "Printing Error" /\ UNCHANGED printed
  /\ calls' = [calls EXCEPT ![c].pc = "done"]
  /\ isPrinting' = FALSE
  /\ showBillModal' = FALSE
  /\ sessionUnchanged
  /\ UNCHANGED <<storeVars, variant, menuItems, billItems, previewItems,
                 previewTotal, paymentMethod, printerConnected, previewNo,
                 printing, lastRead>>

\* initBluetooth found and initialised the printer
initBluetooth ==
  /\ variant = "done"
  /\ ~printerConnected
  /\ printerConnected' = TRUE
  /\ sessionUnchanged
  /\ UNCHANGED <<storeVars, variant, menuItems, billItems, showBillModal,
                 previewItems, previewTotal, paymentMethod, isPrinting, alert,
                 previewNo, printing, printed, calls, lastRead>>

\* the Print button (disabled while isPrinting): handlePrint up to its await
handlePrint ==
  /\ variant = "done"
  /\ showBillModal
  /\ ~isPrinting
  /\ printing = 0
  /\ IF ~printerConnected
       THEN alert' = "Printer Not Connected" /\ UNCHANGED <<isPrinting, printing>>
       ELSE isPrinting' = TRUE /\ printing' = previewNo /\ UNCHANGED alert
  /\ sessionUnchanged
  /\ UNCHANGED <<storeVars, variant, menuItems, billItems, showBillModal,
                 previewItems, previewTotal, paymentMethod, printerConnected,
                 previewNo, printed, calls, lastRead>>

\* printText answers; catch and finally of handlePrint
handlePrint_return ==
  /\ printing # 0
  /\ \E sent \in BOOLEAN :
       IF sent
         THEN printed' = printed \cup {printing} /\ UNCHANGED alert
         ELSE alert' = "Print Error" /\ UNCHANGED printed
  /\ printing' = 0
  /\ isPrinting' = FALSE
  /\ showBillModal' = FALSE
  /\ sessionUnchanged
  /\ UNCHANGED <<storeVars, variant, menuItems, billItems, previewItems,
                 previewTotal, paymentMethod, printerConnected, previewNo,
                 calls, lastRead>>

----------------------------------------------------------------------------
(* Read operations                                                         *)

\* the franchise the session resolves to, None when getFranchiseId throws
caller ==
  LET info == getFranchiseId
  IN IF info.kind = "ok" THEN Some(info.franchise_id) ELSE None

\* franchiseOverride ? franchiseOverride : (await this.getFranchiseId()).franchise_id
\* None when getFranchiseId throws
franchiseFilter(franchiseOverride) ==
  IF franchiseOverride # None /\ franchiseOverride[1] # << >>
    THEN franchiseOverride
  ELSE caller

\* .eq('franchise_id', f).gte('created_at', startTs).lte('created_at', endTs)
billsOf(f, startTs, endTs) ==
  {b \in bills : b.franchise_id = f /\ b.created_at >= startTs /\ b.created_at <= endTs}

\* .gte('created_at', startIso).lte('created_at', endIso), no franchise filter
billsInRange(startTs, endTs) ==
  {b \in bills : b.created_at >= startTs /\ b.created_at <= endTs}

\* .in('bill_id', billIds)
itemsIn(bs) == {r \in bill_items : \E b \in bs : r.bill_id = b.id}

\* sum quantities per item_name
itemTotals(rows) ==
  {<<n, SumSet({<<r.id, r.qty>> : r \in {x \in rows : x.item_name = n}})>>
     : n \in {r.item_name : r \in rows}}

\* a read operation returns r to the session who
setLastRead(r) ==
  /\ lastRead' = r
  /\ sessionUnchanged
  /\ UNCHANGED <<storeVars, screenVars, calls>>

getMenuItems ==
  LET who == caller
  IN /\ who # None
     /\ setLastRead([NoRead EXCEPT !.op = "getMenuItems", !.caller = who,
                       !.filter = who, !.menu = getMenuItems_rows(who[1])])

getGeneratedBills(startTs, endTs) ==
  LET who == caller
  IN /\ who # None
     /\ setLastRead([NoRead EXCEPT !.op = "getGeneratedBills", !.caller = who,
                       !.filter = who,
                       !.bills = billsOf(who[1], startTs, endTs)])

getGeneratedBillItems(billId) ==
  LET who == caller
  IN /\ who # None
     /\ setLastRead([NoRead EXCEPT !.op = "getGeneratedBillItems",
                       !.caller = who, !.filter = who,
                       !.items = {r \in bill_items : r.franchise_id = who[1]
                                                     /\ r.bill_id = billId}])

getRevenueForDateRange(startTs, endTs, franchiseOverride) ==
  LET who == caller
      f == franchiseFilter(franchiseOverride)
      data == IF f = None THEN {} ELSE billsOf(f[1], startTs, endTs)
  IN /\ f # None
     /\ setLastRead([NoRead EXCEPT !.op = "getRevenueForDateRange",
                       !.caller = who, !.filter = f, !.bills = data,
                       !.value = SumSet({<<b.id, b.total>> : b \in data})])

getOrderCountForDateRange(startTs, endTs, franchiseOverride) ==
  LET who == caller
      f == franchiseFilter(franchiseOverride)
      data == IF f = None THEN {} ELSE billsOf(f[1], startTs, endTs)
  IN /\ f # None
     /\ setLastRead([NoRead EXCEPT !.op = "getOrderCountForDateRange",
                       !.caller = who, !.filter = f, !.bills = data,
                       !.value = Cardinality(data)])

getBillRowsForDateRange(startTs, endTs, franchiseOverride) ==
  LET who == caller
      f == franchiseFilter(franchiseOverride)
      data == IF f = None THEN {} ELSE billsOf(f[1], startTs, endTs)
  IN /\ f # None
     /\ setLastRead([NoRead EXCEPT !.op = "getBillRowsForDateRange",
                       !.caller = who, !.filter = f, !.bills = data])

getItemTotalsForDateRange(startTs, endTs, franchiseOverride) ==
  LET who == caller
      f == franchiseFilter(franchiseOverride)
      data == IF f = None THEN {} ELSE billsOf(f[1], startTs, endTs)
      rows == itemsIn(data)
  IN /\ f # None
     /\ setLastRead([NoRead EXCEPT !.op = "getItemTotalsForDateRange",
                       !.caller = who, !.filter = f, !.bills = data,
                       !.items = rows, !.totals = itemTotals(rows)])

getAllBillingData ==
  LET who == caller
      data == {b \in bills : b.franchise_id = who[1]}
  IN /\ who # None
     /\ setLastRead([NoRead EXCEPT !.op = "getAllBillingData", !.caller = who,
                       !.filter = who, !.bills = data, !.items = itemsIn(data)])

\* part_012 lines 358-372: a bill of the reply with its nested items
FullBillRow(b) ==
  [id |-> b.id, created_at |-> b.created_at, total |-> b.total,
   mode_payment |-> b.mode_payment,
   items |-> {[id |-> it.id, bill_id |-> b.id, menu_item_id |-> it.menu_item_id,
               item_name |-> it.item_name, qty |-> it.qty, price |-> it.price]
                : it \in {r \in bill_items : r.bill_id = b.id}}]

\* Subtotal: item.qty * item.price
Subtotal(item) == item.qty * item.price

\* part_004 lines 214-226: all.flatMap(bill => bill.items.map(item => ...)).
\* A FullBillRow has neither franchise_id nor payment_method, so the two
\* fallbacks apply ("-" stands for the dash of line 218); Item_ID tells the
\* rows of one bill apart and is no column
detailedRows(all) ==
  {[Item_ID |-> item.id, Bill_ID |-> bill.id, Date |-> bill.created_at,
    Franchise_ID |-> "-", Item_Name |-> item.item_name,
    Quantity |-> item.qty, Price |-> item.price, Subtotal |-> Subtotal(item),
    Total_Bill_Amount |-> bill.total, Payment_Method |-> "Unknown"]
     : <<bill, item>> \in UNION {{<<b, it>> : it \in b.items} : b \in all}}

\* part_004 lines 208-252: the Export button of the sales report.  The rows
\* handed to the workbook are kept in lastRead; a failure of the query, of
\* the file write or of the share sheet ends in the alert of the catch block
exportToExcel ==
  LET who == caller
  IN /\ \E failed \in BOOLEAN :
          IF failed \/ who = None
            THEN alert' = "Export failed" /\ lastRead' = NoRead
            ELSE /\ lastRead' =
                      [NoRead EXCEPT !.op = "exportToExcel", !.caller = who,
                         !.filter = who,
                         !.rows = detailedRows({FullBillRow(b) : b \in
                                    {x \in bills : x.franchise_id = who[1]}})]
                 /\ UNCHANGED alert
     /\ sessionUnchanged
     /\ UNCHANGED <<storeVars, variant, menuItems, billItems, showBillModal,
                    previewItems, previewTotal, paymentMethod, isPrinting,
                    printerConnected, previewNo, printing, printed, calls>>

----------------------------------------------------------------------------
(* JavaScript Number arithmetic                                            *)
(*                                                                         *)
(* A Number is an IEEE-754 double.  Every value the trend estimator        *)
(* computes is a multiple of 2^-60 below 2^15, so a double d is held as    *)
(* the integer |d| * 2^60 in NLimbs limbs of LimbBits bits (least          *)
(* significant first) with a sign, and each operation is the exact result  *)
(* rounded to 53 significant bits, ties to even.  -0 is held as 0.         *)

LimbBits == 15
Limb == 32768
FracLimbs == 4
NLimbs == 5
Mantissa == 53

RECURSIVE Pow2(_)
Pow2(k) == IF k = 0 THEN 1 ELSE 2 * Pow2(k - 1)

RECURSIVE bitLen(_)
bitLen(x) == IF x = 0 THEN 0 ELSE 1 + bitLen(x \div 2)

zeroMag(n) == [i \in 1..n |-> 0]

RECURSIVE addLimbs(_, _, _)
addLimbs(a, b, carry) ==
  IF a = << >> THEN << >>
  ELSE LET t == a[1] + b[1] + carry
       IN <<t % Limb>> \o addLimbs(Tail(a), Tail(b), t \div Limb)

\* a - b for a >= b
RECURSIVE subLimbs(_, _, _)
subLimbs(a, b, borrow) ==
  IF a = << >> THEN << >>
  ELSE LET t == a[1] - b[1] - borrow
       IN IF t < 0 THEN <<t + Limb>> \o subLimbs(Tail(a), Tail(b), 1)
          ELSE <<t>> \o subLimbs(Tail(a), Tail(b), 0)

\* -1, 0, 1 as a < b, a = b, a > b
RECURSIVE cmpLimbs(_, _)
cmpLimbs(a, b) ==
  IF a = << >> THEN 0
  ELSE LET n == Len(a)
       IN IF a[n] < b[n] THEN -1
          ELSE IF a[n] > b[n] THEN 1
          ELSE cmpLimbs(SubSeq(a, 1, n - 1), SubSeq(b, 1, n - 1))

\* a * d for one limb d, one limb longer than a
RECURSIVE mulLimb(_, _, _)
mulLimb(a, d, carry) ==
  IF a = << >> THEN <<carry>>
  ELSE LET t == a[1] * d + carry
       IN <<t % Limb>> \o mulLimb(Tail(a), d, t \div Limb)

\* a * b, Len(a) + Len(b) limbs
RECURSIVE mulLimbs(_, _)
mulLimbs(a, b) ==
  IF b = << >> THEN zeroMag(Len(a))
  ELSE LET rest == <<0>> \o mulLimbs(a, Tail(b))
           part == mulLimb(a, b[1], 0) \o zeroMag(Len(b) - 1)
       IN IF b[1] = 0 THEN rest ELSE addLimbs(part, rest, 0)

\* floor(a / n) for a small positive integer n, and whether a remainder is left
RECURSIVE divLimbs(_, _, _)
divLimbs(a, n, rem) ==
  IF a = << >> THEN [q |-> << >>, inexact |-> rem # 0]
  ELSE LET k == Len(a)
           t == rem * Limb + a[k]
           lower == divLimbs(SubSeq(a, 1, k - 1), n, t % n)
       IN [q |-> lower.q \o <<t \div n>>, inexact |-> lower.inexact]

RECURSIVE magBitLen(_)
magBitLen(a) ==
  IF a = << >> THEN 0
  ELSE LET n == Len(a)
       IN IF a[n] # 0 THEN LimbBits * (n - 1) + bitLen(a[n])
          ELSE magBitLen(SubSeq(a, 1, n - 1))

pow2Mag(s, n) == [i \in 1..n |-> IF i - 1 = s \div LimbBits THEN Pow2(s % LimbBits) ELSE 0]

\* a mod 2^s
lowBits(a, s) ==
  [i \in 1..Len(a) |->
     IF i - 1 < s \div LimbBits THEN a[i]
     ELSE IF i - 1 = s \div LimbBits THEN a[i] % Pow2(s % LimbBits)
     ELSE 0]

bitAt(a, s) == (a[s \div LimbBits + 1] \div Pow2(s % LimbBits)) % 2

\* round a magnitude to Mantissa significant bits, ties to even
roundMag(a) ==
  LET len == magBitLen(a)
  IN IF len <= Mantissa THEN a
     ELSE LET s == len - Mantissa
              r == lowBits(a, s)
              c == cmpLimbs(r, pow2Mag(s - 1, Len(a)))
              up == c = 1 \/ (c = 0 /\ bitAt(a, s) = 1)
              floor == subLimbs(a, r, 0)
          IN IF up THEN addLimbs(floor, pow2Mag(s, Len(a)), 0) ELSE floor

Num(neg, mag) == [neg |-> neg /\ mag # zeroMag(Len(mag)), mag |-> mag]

fromInt(k) ==
  Num(k < 0, zeroMag(FracLimbs) \o <<IF k < 0 THEN -k ELSE k>> \o zeroMag(NLimbs - FracLimbs - 1))

isZero(x) == x.mag = zeroMag(Len(x.mag))

gtZero_orZero(x) == ~x.neg

gtZero(x) == ~x.neg /\ ~isZero(x)

\* x + y
fadd(x, y) ==
  IF x.neg = y.neg THEN Num(x.neg, roundMag(addLimbs(x.mag, y.mag, 0)))
  ELSE IF cmpLimbs(x.mag, y.mag) >= 0
    THEN Num(x.neg, roundMag(subLimbs(x.mag, y.mag, 0)))
  ELSE Num(y.neg, roundMag(subLimbs(y.mag, x.mag, 0)))

\* x - y
fsub(x, y) == fadd(x, [y EXCEPT !.neg = ~y.neg /\ ~isZero(y)])

\* x * y
fmul(x, y) ==
  LET p == mulLimbs(y.mag, x.mag)
  IN Num(x.neg # y.neg, roundMag(SubSeq(p, FracLimbs + 1, FracLimbs + NLimbs)))

\* x / n for a positive integer n
fdiv(x, n) ==
  LET d == divLimbs(x.mag, n, 0)
      sticky == IF d.inexact /\ d.q[1] % 2 = 0 THEN [d.q EXCEPT ![1] = @ + 1] ELSE d.q
  IN Num(x.neg, roundMag(sticky))

----------------------------------------------------------------------------
(* predictiveService.getRecommendations, step 4: the trend of one item     *)

DefaultLookbackDays == 5

\* Object.keys(dayMap).sort(): the recorded days, ascending ('YYYY-MM-DD'
\* strings sort in calendar order)
RECURSIVE sortedDays_desc(_)
sortedDays_desc(D) ==
  IF D = {} THEN << >>
  ELSE LET d == CHOOSE d \in D : \A e \in D : d >= e
       IN <<d>> \o sortedDays_desc(D \ {d})

RECURSIVE sortedDays(_)
sortedDays(D) ==
  IF D = {} THEN << >>
  ELSE LET d == CHOOSE d \in D : \A e \in D : d <= e
       IN <<d>> \o sortedDays(D \ {d})

\* Array.prototype.slice(start) with one argument
slice_all(s, start) == s

slice(s, start) ==
  LET from == IF start < 0 THEN Max(Len(s) + start, 0)
              ELSE IF start < Len(s) THEN start ELSE Len(s)
  IN SubSeq(s, from + 1, Len(s))

\* a.reduce((a, b) => a + b, 0)
RECURSIVE reduceSum(_, _)
reduceSum(a, acc) ==
  IF a = << >> THEN acc ELSE reduceSum(Tail(a), fadd(acc, Head(a)))

\* lines 1252-1257: cov and varx after the loop has run over i..n
RECURSIVE covVar(_, _, _, _, _, _)
covVar(xs, ys, xBar, yBar, i, acc) ==
  IF i > Len(xs) THEN acc
  ELSE LET dx == fsub(xs[i], xBar)
           dy == fsub(ys[i], yBar)
       IN covVar(xs, ys, xBar, yBar, i + 1,
                 [cov |-> fadd(acc.cov, fmul(dx, dy)),
                  varx |-> fadd(acc.varx, fmul(dx, dx))])

\* lines 1240-1258 for one item: the sign of slope (cov / varx keeps the sign
\* of cov, varx being positive and neither value near the underflow range)
slopeSign(dayMap, lookbackDays) ==
  LET days == sortedDays(DOMAIN dayMap)
      tail == slice(days, -lookbackDays)
      n == Len(tail)
      xs == [i \in 1..n |-> fromInt(i - 1)]
      ys == [i \in 1..n |-> fromInt(dayMap[tail[i]])]
      xBar == fdiv(reduceSum(xs, fromInt(0)), n)
      yBar == fdiv(reduceSum(ys, fromInt(0)), n)
      cv == covVar(xs, ys, xBar, yBar, 1, [cov |-> fromInt(0), varx |-> fromInt(0)])
  IN IF isZero(cv.varx) THEN 0
     ELSE IF gtZero(cv.cov) THEN 1
     ELSE IF isZero(cv.cov) THEN 0 ELSE -1

\* lines 1264-1265: the two messages, without their emoji and with the dash
\* as a hyphen
TrendingUp == "Trending up - consider stocking more."
FlatOrDeclining == "Flat or declining - reallocate resources."

\* lines 1239-1267 for one item: the recommendation pushed, None when the
\* item is skipped
recommendation(dayMap, lookbackDays) ==
  LET tail == slice(sortedDays(DOMAIN dayMap), -lookbackDays)
  IN IF Len(tail) < 2 THEN None
     ELSE Some(IF slopeSign(dayMap, lookbackDays) > 0 THEN TrendingUp
               ELSE FlatOrDeclining)

\* the estimator applied to one item
MaxTrendDays == 5
MaxTrendQty == 5

\* dayMap of an item: recorded days 1..n, each with the quantity sold (a
\* recorded day holds at least one line, and a line has qty >= 1)
DayMaps == UNION {[1..n -> 1..MaxTrendQty] : n \in 1..MaxTrendDays}

LookbackDays == {1, 2, DefaultLookbackDays}

InitTrend ==
  /\ IdleId
  /\ IdleBill
  /\ IdleUi
  /\ \E m \in DayMaps, k \in LookbackDays :
       trend = [pc |-> "item", dayMap |-> m, lookbackDays |-> k,
                recommendation |-> << >>]

\* lines 1239-1267: one pass of Object.entries(qtyByItemDay).forEach
getRecommendations_forEach ==
  /\ trend.pc = "item"
  /\ trend' = [trend EXCEPT !.pc = "done",
                 !.recommendation = recommendation(trend.dayMap, trend.lookbackDays)]
  /\ UNCHANGED <<idVars, billVars, uiVars, svcVars>>

NextTrend == getRecommendations_forEach

SpecTrend == InitTrend /\ [][NextTrend]_vars

----------------------------------------------------------------------------
(* predictiveService.getRecommendations                                    *)

\* lines 1211-1217: the calendar date of a bill.  The label is the UTC date
\* of the local midnight of created_at, the same shift for every bill, so
\* the day number stands for it.
dateByBill(bs, id) == (CHOOSE b \in bs : b.id = id).created_at

\* lines 1228-1235: per item, per day, the summed quantity
qtyByItemDay(bs, rows) ==
  [n \in {r.item_name : r \in rows} |->
     [d \in {dateByBill(bs, r.bill_id) : r \in {x \in rows : x.item_name = n}} |->
        SumSet({<<r.id, r.qty>> :
                  r \in {x \in rows : x.item_name = n /\ dateByBill(bs, x.bill_id) = d}})]]

\* lines 1238-1269
recommendations(q, lookbackDays) ==
  {[item |-> n, recommendation |-> recommendation(q[n], lookbackDays)[1]] :
     n \in {m \in DOMAIN q : recommendation(q[m], lookbackDays) # None}}

\* lines 1196-1270: both queries carry a date range and no franchise filter
predictiveService_getRecommendations(startIso, endIso, lookbackDays) ==
  LET bs == billsInRange(startIso, endIso)
      rows == itemsIn(bs)
  IN setLastRead([NoRead EXCEPT !.op = "predictiveService.getRecommendations",
                    !.caller = caller, !.bills = bs, !.items = rows,
                    !.recs = recommendations(qtyByItemDay(bs, rows), lookbackDays)])

----------------------------------------------------------------------------
(* The new-bill screen and the data layer running against the backend      *)

Overrides == {None, Some(FR_12)}

ReadOp ==
  \/ getMenuItems
  \/ getAllBillingData
  \/ \E b \in bills : getGeneratedBillItems(b.id)
  \/ \E s \in Days, e \in Days :
       /\ s <= e
       /\ \/ getGeneratedBills(s, e)
          \/ predictiveService_getRecommendations(s, e, DefaultLookbackDays)
          \/ \E o \in Overrides :
               \/ getRevenueForDateRange(s, e, o)
               \/ getOrderCountForDateRange(s, e, o)
               \/ getBillRowsForDateRange(s, e, o)
               \/ getItemTotalsForDateRange(s, e, o)

MenuOp ==
  \/ addMenuItem(NewMenuItem)
  \/ \E m \in menu_items, p \in NewPrices : updateMenuItem(m.id, p)
  \/ \E m \in menu_items : deleteMenuItem(m.id)

CartOp ==
  \/ fetchMenuItems
  \/ \E item \in menuItems : addToBill(item)
  \/ \E i \in DOMAIN billItems, delta \in {-1, 1} : updateQty(billItems[i].id, delta)
  \/ \E i \in DOMAIN billItems : removeItem(billItems[i].id)
  \/ generateBill

PreviewOp ==
  \/ onRequestClose
  \/ \E m \in {"Cash", "UPI"} : setPaymentMethod(m) \/ handlePaymentMethodSelect(m)
  \/ finalizeBill
  \/ initBluetooth
  \/ handlePrint
  \/ handlePrint_return

BackendReply ==
  \E c \in DOMAIN calls :
    \/ createGeneratedBill_getFranchiseId(c)
    \/ createGeneratedBill_insertBill(c)
    \/ createGeneratedBill_insertItems(c)
    \/ handlePaymentMethodSelect_openURL(c)

\* the data layer: sessions, createGeneratedBill, menu and read operations
InitStore ==
  /\ InitBill
  /\ variant = "done"

NextStore ==
  \/ \E u \in Users : signIn(u)
  \/ \E m \in menu_items :
       /\ caller = Some(m.franchise_id)
       /\ createGeneratedBill(m, 1, "Cash")
  \/ \E c \in DOMAIN calls :
       \/ createGeneratedBill_getFranchiseId(c)
       \/ createGeneratedBill_insertBill(c)
       \/ createGeneratedBill_insertItems(c)
  \/ MenuOp
  \/ ReadOp

SpecStore == InitStore /\ [][NextStore]_vars

\* createGeneratedBill alone: sessions and the calls
NextSave ==
  \/ \E u \in Users : signIn(u)
  \/ \E m \in menu_items, qty \in 1..MaxQty, method \in {"Cash", "UPI"} :
       /\ caller = Some(m.franchise_id)
       /\ createGeneratedBill(m, qty, method)
  \/ \E c \in DOMAIN calls :
       \/ createGeneratedBill_getFranchiseId(c)
       \/ createGeneratedBill_insertBill(c)
       \/ createGeneratedBill_insertItems(c)

SpecSave == InitStore /\ [][NextSave]_vars

\* the cart of the new-bill screen over a menu of two items
CartMenu ==
  InitialMenu \cup
  {[id |-> 2, name |-> "Bun", price |-> 15, category |-> "Snacks",
    franchise_id |-> FR_12, created_by |-> "u-store12"]}

InitCart ==
  /\ acct = [kind |-> "none", local |-> Local_plain, frid |-> << >>]
  /\ idPc = "idle" /\ idUser = NoUser /\ idData = None /\ idResult = NoResult
  /\ nGetUser = 0 /\ nProfileQuery = 0
  /\ authUser = Some(User_store12) /\ profileRow = profileOf(User_store12)
  /\ bills = {} /\ bill_items = {} /\ menu_items = CartMenu /\ menuSeq = 2
  /\ today = 1
  /\ variant \in {"done", "pay"}
  /\ menuItems = {} /\ billItems = << >>
  /\ showBillModal = FALSE /\ previewItems = << >> /\ previewTotal = 0
  /\ paymentMethod = "Cash" /\ isPrinting = FALSE /\ printerConnected = FALSE
  /\ alert = "" /\ previewNo = 0 /\ printing = 0 /\ printed = {}
  /\ calls = << >> /\ lastRead = NoRead
  /\ trend = NoTrend
  /\ IdleUi

NextCart ==
  \/ fetchMenuItems
  \/ \E item \in menuItems : addToBill(item)
  \/ \E i \in DOMAIN billItems, delta \in {-1, 1} : updateQty(billItems[i].id, delta)
  \/ \E i \in DOMAIN billItems : removeItem(billItems[i].id)
  \/ generateBill
  \/ onRequestClose

SpecCart == InitCart /\ [][NextCart]_vars

\* the new-bill screen of a signed-in account
NextBill ==
  \/ CartOp
  \/ PreviewOp
  \/ BackendReply
  \/ exportToExcel

SpecBill == InitBill /\ [][NextBill]_vars

----------------------------------------------------------------------------
(* PredictiveAnalysisScreen: the heuristic recommendations.  Two screens   *)
(* carry the code: "predictive" has four strategies over the enhanced      *)
(* items, "layout" has two over the aggregated items.                      *)

MaxRecItems == 4
MaxRecQty == 3

\* a.sort((x, y) => key(y) - key(x)) of a copy of s, k[i] being the key of
\* s[i]; Array.prototype.sort is stable
sortDesc_unsorted(s, k) == s

sortDesc(s, k) ==
  LET rank(i) == Cardinality({j \in DOMAIN s :
                                k[j] > k[i] \/ (k[j] = k[i] /\ j < i)}) + 1
  IN [p \in DOMAIN s |-> s[CHOOSE i \in DOMAIN s : rank(i) = p]]

\* a.slice(0, n)
take(s, n) == SubSeq(s, 1, IF Len(s) < n THEN Len(s) ELSE n)

\* Math.round of a Number x >= 0: halves go up
mathRound(x) == x.mag[NLimbs] + (IF x.mag[FracLimbs] >= Limb \div 2 THEN 1 ELSE 0)

\* the Number nearest to 0.7
Point7 == Num(FALSE, <<13056, 26214, 19660, 22937, 0>>)

byTotalQty(s) == sortDesc(s, [i \in DOMAIN s |-> s[i].totalQty])

\* the template literals; a dash stands for the source's long dash
trendingItems(screen, data) ==
  LET sorted == byTotalQty(data)
      top == IF sorted[1].totalQty = 0 THEN 1 ELSE sorted[1].totalQty
      pct(item) == mathRound(fmul(fdiv(fromInt(item.totalQty), top), fromInt(100)))
      picked == take(sorted, 3)
  IN [i \in DOMAIN picked |->
        [item |-> picked[i].item_name,
         recommendation |->
           IF screen = "layout"
           THEN <<"Boost ", picked[i].item_name, " stock - trending now!">>
           ELSE <<"Sales of ", picked[i].item_name,
                  " are rising-consider restocking soon.">>,
         confidence |-> LET c == pct(picked[i])
                        IN IF c < 100 THEN c ELSE 100]]

weekendItems(data) ==
  LET picked == take(byTotalQty(SelectSeq(data, LAMBDA i : i.isWeekend)), 2)
  IN [i \in DOMAIN picked |->
        [item |-> picked[i].item_name,
         recommendation |->
           <<"", picked[i].item_name,
             " sells well on weekends-feature it in weekend specials.">>,
         confidence |-> 75]]

timeBased(data) ==
  LET morning == SelectSeq(data, LAMBDA i : i.timeOfDay = "morning")
  IN IF morning = << >> THEN << >>
     ELSE <<[item |-> byTotalQty(morning)[1].item_name,
             recommendation |->
               <<"Highlight ", byTotalQty(morning)[1].item_name,
                 " in breakfast combos for morning customers.">>,
             confidence |-> 65]>>

\* data.length = 0 makes avg NaN and every comparison with it false
lowStockPotential(screen, data) ==
  LET avg == fdiv(reduceSum([i \in DOMAIN data |-> fromInt(data[i].totalQty)],
                            fromInt(0)), Len(data))
      limit == fmul(avg, Point7)
      low == IF data = << >> THEN << >>
             ELSE SelectSeq(data, LAMBDA i :
                    cmpLimbs(fromInt(i.totalQty).mag, limit.mag) < 0)
      sorted == IF screen = "layout" THEN byTotalQty(low)
                ELSE sortDesc(low, [i \in DOMAIN low |-> low[i].totalPrice])
      picked == take(sorted, 2)
  IN [i \in DOMAIN picked |->
        [item |-> picked[i].item_name,
         recommendation |->
           IF screen = "layout"
           THEN <<"Promote ", picked[i].item_name, " - slower sales detected">>
           ELSE <<"", picked[i].item_name,
                  " has high revenue potential-consider promotional pricing.">>,
         confidence |-> 60]]

\* the strategies in the order getRecommendations spreads them
strategyOutputs(screen, data) ==
  IF screen = "layout"
  THEN <<trendingItems(screen, data), lowStockPotential(screen, data)>>
  ELSE <<trendingItems(screen, data), weekendItems(data), timeBased(data),
         lowStockPotential(screen, data)>>

RECURSIVE concat(_)
concat(ss) == IF ss = << >> THEN << >> ELSE Head(ss) \o concat(Tail(ss))

\* the forEach over allRecs into a Map keyed by item, and Array.from of its
\* values: insertion order, the first record of each item
RECURSIVE uniqueValues(_, _)
uniqueValues(allRecs, seen) ==
  IF allRecs = << >> THEN << >>
  ELSE IF Head(allRecs).item \in seen THEN uniqueValues(Tail(allRecs), seen)
  ELSE <<Head(allRecs)>>
         \o uniqueValues(Tail(allRecs), seen \cup {Head(allRecs).item})

getRecommendations(screen, data) ==
  LET unique == uniqueValues(concat(strategyOutputs(screen, data)), {})
  IN sortDesc(unique, [i \in DOMAIN unique |-> unique[i].confidence])

\* the item names and unit prices of the menu the bills were made from
ItemNames == <<"Tea", "Bun", "Milk", "Idli", "Dosa", "Vada">>
UnitPrices == <<10, 15, 25, 30, 40, 12>>

\* what load() hands to getRecommendations.  "layout" passes the rows of
\* getItemTotalsForDateRange as they come; "predictive" passes sortedAgg,
\* which it has sorted by totalQty, each item carrying the weekend flag and
\* the time of day of its first bill.  A total is a sum of cart quantities,
\* each at least 1.
LoadedData(screen) ==
  UNION {
    {d \in [1..n -> IF screen = "layout"
                    THEN [totalQty : 1..MaxRecQty]
                    ELSE [totalQty : 1..MaxRecQty, isWeekend : BOOLEAN,
                          timeOfDay : {"morning", "evening"}]] :
       screen = "layout" \/ \A i \in 1..(n - 1) : d[i].totalQty >= d[i + 1].totalQty}
    : n \in 0..MaxRecItems}

withNames(screen, d) ==
  [i \in DOMAIN d |->
     IF screen = "layout"
     THEN [item_name |-> ItemNames[i], totalQty |-> d[i].totalQty]
     ELSE [item_name |-> ItemNames[i], totalQty |-> d[i].totalQty,
           totalPrice |-> UnitPrices[i] * d[i].totalQty,
           isWeekend |-> d[i].isWeekend, timeOfDay |-> d[i].timeOfDay]]

InitAnalysis ==
  /\ IdleId
  /\ IdleBill
  /\ trend = NoTrend
  /\ IdleSvc
  /\ receipt = NoReceipt
  /\ hook = NoHook
  /\ form = NoForm
  /\ \E screen \in {"layout", "predictive"} :
       \E d \in LoadedData(screen) :
         analysis = [pc |-> "loaded", screen |-> screen,
                     data |-> withNames(screen, d), recs |-> << >>]

\* load(): setRecs(getRecommendations(...))
load_setRecs ==
  /\ analysis.pc = "loaded"
  /\ analysis' = [analysis EXCEPT !.pc = "shown",
                    !.recs = getRecommendations(analysis.screen, analysis.data)]
  /\ UNCHANGED <<idVars, billVars, trend, receipt, hook, form, svcVars>>

NextAnalysis == load_setRecs

SpecAnalysis == InitAnalysis /\ [][NextAnalysis]_vars

----------------------------------------------------------------------------
(* The receipt text.  buildReceiptText is the builder of the screen with   *)
(* payment buttons, composeReceipt the one of the sharing screen, and the  *)
(* Print/Done screen builds the same text as composeReceipt inside         *)
(* handlePrint.  A receipt is a string; an amount of money is a whole      *)
(* number of hundredths, which toFixed(2) prints exactly.                  *)

MaxReceiptItems == 2

lineWidth == 32

\* ' '.repeat(n)
spaces(n) == SubSeq("                                        ", 1, n)

\* String.prototype.padEnd / padStart with the default filler
padEnd(s, n) == IF Len(s) >= n THEN s ELSE s \o spaces(n - Len(s))
padStart(s, n) == IF Len(s) >= n THEN s ELSE spaces(n - Len(s)) \o s

\* Number.prototype.toString of a whole number n >= 0
RECURSIVE toString(_)
toString(n) ==
  LET d == SubSeq("0123456789", (n % 10) + 1, (n % 10) + 1)
  IN IF n < 10 THEN d ELSE toString(n \div 10) \o d

\* x.toFixed(2) for x = h / 100
toFixed2(h) ==
  toString(h \div 100) \o "." \o toString((h % 100) \div 10) \o toString(h % 10)

\* const name = ...: the name as it is printed
printedName_cut16(name) == IF Len(name) > 16 THEN SubSeq(name, 1, 16) ELSE name

printedName(name) ==
  IF Len(name) > 16 THEN SubSeq(name, 1, 13) \o "..." ELSE name

\* the row of one item
itemRow(i) ==
  padEnd(printedName(i.name), 16) \o padStart(toString(i.qty), 3)
    \o "  ₹" \o padStart(toFixed2(i.price * i.qty), 7) \o "\n"

\* items.forEach(...)
RECURSIVE forEachRow(_)
forEachRow(items) ==
  IF items = << >> THEN "" ELSE itemRow(Head(items)) \o forEachRow(Tail(items))

center(t) ==
  IF Len(t) >= lineWidth THEN t
  ELSE LET pad == (lineWidth - Len(t)) \div 2
       IN spaces(pad) \o t \o spaces(lineWidth - Len(t) - pad)

\* from the column header to the PAYMENT line, the same in every builder
receiptBody(items, totalAmt, method) ==
  "ITEM          QTY  AMOUNT\n"
    \o "------------------------\n"
    \o forEachRow(items)
    \o "------------------------\n"
    \o "TOTAL:       ₹" \o padStart(toFixed2(totalAmt), 7) \o "\n"
    \o "PAYMENT:     " \o padStart(method, 7) \o "\n\n"

buildReceiptText(items, totalAmt, method, now) ==
  center("T VANAMM") \o "\n"
    \o center(now) \o "\n\n"
    \o receiptBody(items, totalAmt, method)
    \o center("Thank you visit again!") \o "\n\n\n"

composeReceipt(items, totalAmt, method, now) ==
  "         T VANAMM\n\n"
    \o "      " \o now \o "\n\n"
    \o receiptBody(items, totalAmt, method)
    \o "Thank you visit again!\n\n\n"

\* preview items: names of 3, 16, 17 and 20 characters, prices of 123.40 and
\* 400.00, quantities reached with the + button
PreviewItems ==
  [name : {"Tea", "Ginger Lemon Tea", "Paneer Butter Bun", "Chocolate Milk Shake"},
   qty : {1, 25},
   price : {12340, 40000}]

\* new Date().toLocaleString() under two locales
LocaleStrings == {"11/4/2026, 6:30:05 PM", "4/11/2026, 18:30:05"}

\* the preview that generateBill opens: the cart and its total
InitReceipt ==
  /\ IdleId
  /\ IdleBill
  /\ trend = NoTrend
  /\ IdleSvc
  /\ analysis = NoAnalysis
  /\ hook = NoHook
  /\ form = NoForm
  /\ \E n \in 1..MaxReceiptItems :
       \E items \in [1..n -> PreviewItems] :
         \E builder \in {"buildReceiptText", "composeReceipt", "handlePrint"},
            method \in {"Cash", "UPI"}, now \in LocaleStrings :
           receipt = [pc |-> "preview", builder |-> builder, items |-> items,
                      total |-> SumSeq([i \in DOMAIN items |->
                                          items[i].price * items[i].qty]),
                      method |-> method, now |-> now, text |-> ""]

\* the receipt handed to the printer, the print service or the share sheet
buildReceipt ==
  /\ receipt.pc = "preview"
  /\ receipt' =
       [receipt EXCEPT
          !.pc = "built",
          !.text = IF receipt.builder = "buildReceiptText"
                   THEN buildReceiptText(receipt.items, receipt.total,
                                         receipt.method, receipt.now)
                   ELSE composeReceipt(receipt.items, receipt.total,
                                       receipt.method, receipt.now)]
  /\ UNCHANGED <<idVars, billVars, trend, analysis, hook, form, svcVars>>

NextReceipt == buildReceipt

SpecReceipt == InitReceipt /\ [][NextReceipt]_vars

----------------------------------------------------------------------------
(* useAuth: the hook of one component, from its effect to its unmount.     *)
(* The getSession request and the auth-state-change notifications are in   *)
(* flight independently of the component: a response or a notification     *)
(* that was already on its way is delivered after the cleanup too.         *)

MaxAuthEvents == 2

\* session?.user ?? null of the sessions the client can hold
SessionUsers == {None, Some("u1"), Some("u2")}

\* after the first render and the effect: loadSession() is awaiting
\* getSession and the subscription is registered
InitHook ==
  /\ IdleId
  /\ IdleBill
  /\ trend = NoTrend
  /\ IdleSvc
  /\ analysis = NoAnalysis
  /\ receipt = NoReceipt
  /\ form = NoForm
  /\ \E s \in SessionUsers :
       hook = [mounted |-> TRUE, isMounted |-> TRUE, user |-> None,
               loading |-> TRUE, getSession |-> "pending", subscribed |-> TRUE,
               session |-> s, queue |-> << >>, emitted |-> 0]

\* lines 23-26 without the test of line 24
loadSession_resume_noFlag ==
  /\ hook.getSession = "pending"
  /\ hook' = [hook EXCEPT !.getSession = "done", !.user = hook.session,
                !.loading = FALSE]
  /\ UNCHANGED <<idVars, billVars, trend, analysis, receipt, form, svcVars>>

\* lines 23-26: getSession has answered and loadSession resumes
loadSession_resume ==
  /\ hook.getSession = "pending"
  /\ hook' = IF ~hook.isMounted THEN [hook EXCEPT !.getSession = "done"]
             ELSE [hook EXCEPT !.getSession = "done", !.user = hook.session,
                     !.loading = FALSE]
  /\ UNCHANGED <<idVars, billVars, trend, analysis, receipt, form, svcVars>>

\* the client signs in, signs out or refreshes, and notifies the subscriber
authStateChange(s) ==
  /\ hook.subscribed
  /\ hook.emitted < MaxAuthEvents
  /\ hook' = [hook EXCEPT !.session = s, !.queue = Append(hook.queue, s),
                !.emitted = hook.emitted + 1]
  /\ UNCHANGED <<idVars, billVars, trend, analysis, receipt, form, svcVars>>

\* lines 33-37: the callback runs for the oldest notification
onAuthStateChange_callback ==
  /\ hook.queue # << >>
  /\ hook' = IF ~hook.isMounted THEN [hook EXCEPT !.queue = Tail(hook.queue)]
             ELSE [hook EXCEPT !.queue = Tail(hook.queue),
                     !.user = Head(hook.queue), !.loading = FALSE]
  /\ UNCHANGED <<idVars, billVars, trend, analysis, receipt, form, svcVars>>

\* lines 40-43: the component unmounts and React runs the cleanup
cleanup ==
  /\ hook.mounted
  /\ hook' = [hook EXCEPT !.mounted = FALSE, !.isMounted = FALSE,
                !.subscribed = FALSE]
  /\ UNCHANGED <<idVars, billVars, trend, analysis, receipt, form, svcVars>>

NextHook ==
  \/ loadSession_resume
  \/ \E s \in SessionUsers : authStateChange(s)
  \/ onAuthStateChange_callback
  \/ cleanup

SpecHook == InitHook /\ [][NextHook]_vars

----------------------------------------------------------------------------
(* The forms: login, sign-up and the two change-password screens.  A       *)
(* handler runs with the field values of the render it was created in, so  *)
(* a run is one step: the replies of the backend calls it awaits are drawn *)
(* when it runs, and form.last keeps what the run did (the calls it        *)
(* issued in order, the alerts it raised, the route it replaced) until a   *)
(* field is edited again.                                                  *)

\* a string as the sequence of its characters
chars(s) == [i \in 1..Len(s) |-> SubSeq(s, i, i)]

\* String.prototype.trim
RECURSIVE trim(_)
trim(s) ==
  IF s = << >> THEN s
  ELSE IF Head(s) = " " THEN trim(Tail(s))
  ELSE IF s[Len(s)] = " " THEN trim(SubSeq(s, 1, Len(s) - 1))
  ELSE s

NoRun == [handler |-> "", calls |-> << >>, alerts |-> << >>, route |-> None]

\* a run that ended in the catch block, or in a validation alert
Failed(h, issued, title, message) ==
  [handler |-> h, calls |-> issued, alerts |-> <<<<title, message>>>>,
   route |-> None]

\* what the user can type into each field
FormTexts ==
  [userType |-> {"store", "admin"},
   storeId |-> {<< >>, <<" ">>, Frid_fr12},
   franchiseId |-> {<< >>, <<"7">>},
   email |-> {<< >>, Local_jane, Local_jane \o AT, Local_jane \o AT \o Domain_x,
              Local_aplusb \o AT \o Domain_x},
   password |-> {"", "secret1"},
   name |-> {<< >>, chars("Jane")},
   oldPwd |-> {"", "old-pw"},
   newPwd |-> {"", "pw", "secret1"}]

ScreenFields ==
  [login |-> {"userType", "storeId", "franchiseId", "email", "password"},
   signup |-> {"name", "franchiseId", "email", "password"},
   adminPwd |-> {"oldPwd", "newPwd"},
   centralPwd |-> {"oldPwd", "newPwd"}]

\* the error of a reply: absent, or its message
SignInErrors == {None, Some("Invalid login credentials"),
                 Some("Email not confirmed"), Some("Request rate limit reached")}
SignUpReplies == {[id |-> Some("u9"), error |-> None],
                  [id |-> None, error |-> None],
                  [id |-> None, error |-> Some("User already registered")],
                  [id |-> None, error |-> Some("Duplicate email")],
                  [id |-> None, error |-> Some("Signups not allowed for this instance")]}
InsertErrors == {None, Some("duplicate key value violates unique constraint")}
GetUserReplies == {[email |-> Some(Local_jane \o PLUS \o Stored_FR7 \o AT \o Domain_x),
                    error |-> None],
                   [email |-> Some(Local_plain \o AT \o Domain_x), error |-> None],
                   [email |-> None, error |-> None],
                   [email |-> None, error |-> Some("JWT expired")]}
UpdateUserErrors == {None, Some("New password should be different from the old password.")}
InvokeErrors == {None, Some("Edge Function returned a non-2xx status code")}
FranchiseInfos == {[kind |-> "ok", franchise_id |-> Stored_FR7,
                    dashboardRoute |-> AdminRoute, message |-> ""],
                   [kind |-> "ok", franchise_id |-> Stored_FRCENTRAL,
                    dashboardRoute |-> CentralRoute, message |-> ""],
                   Thrown("Franchise ID not found in profile or email")}

Call(fn, arg, error) == [fn |-> fn, arg |-> arg, error |-> error]

\* a screen as it is first rendered
InitForm ==
  /\ IdleId
  /\ IdleBill
  /\ trend = NoTrend
  /\ IdleSvc
  /\ analysis = NoAnalysis
  /\ receipt = NoReceipt
  /\ hook = NoHook
  /\ \E screen \in DOMAIN ScreenFields :
       form = [screen |-> screen, userType |-> "store", storeId |-> << >>,
               franchiseId |-> << >>, email |-> << >>, password |-> "",
               name |-> << >>, oldPwd |-> "", newPwd |-> "", last |-> NoRun]

formUnchanged == UNCHANGED <<idVars, billVars, trend, analysis, receipt, hook, svcVars>>

\* onChangeText / the toggle of the user type
onChangeText(field, text) ==
  /\ field \in ScreenFields[form.screen]
  /\ form' = [form EXCEPT ![field] = text, !.last = NoRun]
  /\ formUnchanged

\* const raw = ...; const frId = ...
frIdOf(id) ==
  LET raw == toUpperCase(trim(id))
  IN IF startsWith(raw, <<"F", "R", "-">>) THEN raw ELSE <<"F", "R", "-">> \o raw

\* const [local, domain] = email.trim().split('@'): a missing part is
\* undefined, which the tests treat like the empty string
localDomain(email) ==
  LET parts == split(trim(email), AT)
  IN [local |-> parts[1], domain |-> IF Len(parts) >= 2 THEN parts[2] ELSE << >>]

\* new Error('Invalid login credentials') of lines 132 and 149
loginFailure_message(loginError) == loginError[1]

loginFailure(loginError) == "Invalid login credentials"

\* useAuth.ts lines 117-170 (and 500-554)
handleLogin ==
  /\ form.screen = "login"
  /\ \E loginError \in SignInErrors, info \in FranchiseInfos :
       LET h == "handleLogin"
           store == form.userType = "store"
           ld == localDomain(form.email)
           loginEmail ==
             IF store
             THEN STORE_DOT \o toLowerCase(frIdOf(form.storeId)) \o AT \o Domain_store
             ELSE ld.local \o PLUS \o frIdOf(form.franchiseId) \o AT \o ld.domain
           c1 == Call("auth.signInWithPassword", loginEmail, loginError)
           c2 == Call("databaseService.getFranchiseId", << >>,
                         IF info.kind = "error" THEN Some(info.message) ELSE None)
       IN form' = [form EXCEPT !.last =
            IF store /\ (trim(form.storeId) = << >> \/ form.password = "")
              THEN Failed(h, << >>, "Login Failed", "Store ID & password required")
            ELSE IF ~store /\ (\/ trim(form.franchiseId) = << >>
                               \/ trim(form.email) = << >>
                               \/ form.password = "")
              THEN Failed(h, << >>, "Login Failed",
                          "Franchise ID, Email & password required")
            ELSE IF ~store /\ (ld.local = << >> \/ ld.domain = << >>)
              THEN Failed(h, << >>, "Login Failed", "Invalid email format")
            ELSE IF loginError # None
              THEN Failed(h, <<c1>>, "Login Failed", loginFailure(loginError))
            ELSE IF store
              THEN [handler |-> h, calls |-> <<c1>>, alerts |-> << >>,
                    route |-> Some("/(tabs)/dashboard")]
            ELSE IF info.kind = "error"
              THEN Failed(h, <<c1, c2>>, "Login Failed", info.message)
            ELSE [handler |-> h, calls |-> <<c1, c2>>, alerts |-> << >>,
                  route |-> Some(IF info.dashboardRoute = CentralRoute
                                 THEN CentralRoute ELSE AdminRoute)]]
  /\ formUnchanged

\* err.message || 'Something went wrong'
messageOr(error, fallback) == IF error[1] = "" THEN fallback ELSE error[1]

\* the store sign-up error that is thrown on: matched on the message as it
\* is, without lower-casing
rethrown_caseSensitive(message) ==
  /\ ~includes(chars(message), chars("already registered"))
  /\ ~includes(chars(message), chars("duplicate"))

\* const msg = storeError.message.toLowerCase();
\* !msg.includes('already registered') && !msg.includes('duplicate')
rethrown(message) ==
  LET msg == toLowerCase(chars(message))
  IN /\ ~includes(msg, chars("already registered"))
     /\ ~includes(msg, chars("duplicate"))

\* part_008 lines 46-112
handleSignup ==
  /\ form.screen = "signup"
  /\ \E admin \in SignUpReplies, profileError \in InsertErrors,
        storeReply \in SignUpReplies :
       LET h == "handleSignup"
           frId == frIdOf(form.franchiseId)
           ld == localDomain(form.email)
           adminAlias == ld.local \o PLUS \o frId \o AT \o ld.domain
           storeEmail == STORE_DOT \o toLowerCase(frId) \o AT \o Domain_store
           c1 == Call("auth.signUp", adminAlias, admin.error)
           c2 == Call("profiles.insert", trim(form.email), profileError)
           c3 == Call("auth.signUp", storeEmail, storeReply.error)
           c4 == Call("profiles.upsert", frId, None)
           c5 == Call("auth.signOut", << >>, None)
       IN form' = [form EXCEPT !.last =
            IF ld.local = << >> \/ ld.domain = << >>
              THEN Failed(h, << >>, "Error", "Invalid email format")
            ELSE IF admin.error # None
              THEN Failed(h, <<c1>>, "Error",
                          messageOr(admin.error, "Something went wrong"))
            ELSE IF admin.id = None
              THEN Failed(h, <<c1>>, "Error", "Admin sign-up failed")
            ELSE IF profileError # None
              THEN Failed(h, <<c1, c2>>, "Error",
                          messageOr(profileError, "Something went wrong"))
            ELSE IF storeReply.error # None /\ rethrown(storeReply.error[1])
              THEN Failed(h, <<c1, c2, c3>>, "Error",
                          messageOr(storeReply.error, "Something went wrong"))
            ELSE [handler |-> h,
                  calls |-> IF storeReply.error = None /\ storeReply.id # None
                            THEN <<c1, c2, c3, c4, c5>> ELSE <<c1, c2, c3, c5>>,
                  alerts |-> <<<<"Success", "Account created! Please log in.">>>>,
                  route |-> Some("/login")]]
  /\ formUnchanged

\* reauthAndUpdate: the calls it issues, the message of the error it throws
\* if it throws, and the email it returns
reauthAndUpdate(oldPwd, newPwd, user, signInErr, updErr) ==
  LET c1 == Call("auth.getUser", << >>, user.error)
      c2 == Call("auth.signInWithPassword", user.email[1], signInErr)
      c3 == Call("auth.updateUser", << >>, updErr)
  IN IF user.error # None \/ user.email = None \/ user.email = Some(<< >>)
       THEN [calls |-> <<c1>>,
             thrown |-> Some(IF user.error = None THEN "User not found"
                             ELSE messageOr(user.error, "User not found"))]
     ELSE IF signInErr # None
       THEN [calls |-> <<c1, c2>>, thrown |-> Some("Old password is incorrect")]
     ELSE IF updErr # None
       THEN [calls |-> <<c1, c2, c3>>, thrown |-> Some(updErr[1])]
     ELSE [calls |-> <<c1, c2, c3>>, thrown |-> None, email |-> user.email[1]]

\* adminEmail.split('+')[1]?.split('@')[0] and the template of part_000
\* lines 78-79 (part_004 lines 1412-1413)
derivedStoreEmail(adminEmail) ==
  LET plus == split(adminEmail, PLUS)
      franchise == IF Len(plus) >= 2 THEN split(plus[2], AT)[1]
                   ELSE chars("undefined")
  IN STORE_DOT \o franchise \o AT \o Domain_store

\* the two save handlers after their validation: lines 73-97 of part_000 and
\* 1411-1435 of part_004.  A failed sync is written to the console.
saveRun(h, success) ==
  {LET r == reauthAndUpdate(form.oldPwd, form.newPwd, user, signInErr, updErr)
       storeEmail == derivedStoreEmail(r.email)
       sync == Call("functions.invoke update_store_password", storeEmail, storeErr)
   IN IF r.thrown # None THEN Failed(h, r.calls, "Error", r.thrown[1])
      ELSE [handler |-> h, calls |-> r.calls \o <<sync>>,
            alerts |-> <<<<"Success", success>>>>, route |-> None] :
     user \in GetUserReplies, signInErr \in SignInErrors,
     updErr \in UpdateUserErrors, storeErr \in InvokeErrors}

\* part_000 lines 67-98
handleAdminSave ==
  /\ form.screen = "adminPwd"
  /\ \E run \in saveRun("handleAdminSave", "Admin password changed") :
       form' = [form EXCEPT !.last =
         IF form.oldPwd = "" \/ form.newPwd = ""
           THEN Failed("handleAdminSave", << >>, "Error", "Please fill both fields")
         ELSE run]
  /\ formUnchanged

\* part_004 lines 1399-1436
handleSave ==
  /\ form.screen = "centralPwd"
  /\ \E run \in saveRun("handleSave", "Password changed successfully!") :
       form' = [form EXCEPT !.last =
         IF form.oldPwd = "" \/ form.newPwd = ""
           THEN Failed("handleSave", << >>, "Error", "Please fill both fields")
         ELSE IF Len(form.newPwd) < 6
           THEN Failed("handleSave", << >>, "Error",
                       "Password must be at least 6 characters")
         ELSE run]
  /\ formUnchanged

NextForm ==
  \/ \E field \in DOMAIN FormTexts : \E text \in FormTexts[field] :
       onChangeText(field, text)
  \/ handleLogin
  \/ handleSignup
  \/ handleAdminSave
  \/ handleSave

SpecForm == InitForm /\ [][NextForm]_vars

----------------------------------------------------------------------------
(* Backend auth users, and the remote functions delete_user and            *)
(* update_store_password                                                   *)
(*                                                                         *)
(* server.users holds the auth users (id, email, password; kind and frid   *)
(* record which sign-up created the user and are read by no operation),    *)
(* server.session the user the client is signed in as, server.last what    *)
(* the last handler or request did.  Whether the auth service stores an    *)
(* address as given or lower-cased is not fixed by the repository:         *)
(* server.lowercases is either, for the whole behaviour.                   *)

MaxSignups == 2

Passwords == {"pw1", "pw2"}

\* the franchise and the email typed on the signup and login screens
TypedFranchiseId == <<"7">>
TypedEmail == Local_jane \o AT \o Domain_x

\* the address as the auth service keeps it
storedEmail(lowercases, email) == IF lowercases THEN toLowerCase(email) ELSE email

\* auth.admin.listUsers({ email }): the users kept under that address
listUsers(lowercases, users, email) ==
  {u \in users : u.email = storedEmail(lowercases, email)}

\* supabase.auth.signInWithPassword: the user signed in, if any
signInWithPassword(lowercases, users, email, password) ==
  {u \in listUsers(lowercases, users, email) : u.password = password}

\* supabase.auth.getUser(): the user of the session, if it still exists
getUser(users, session) == {u \in users : session = Some(u.id)}

InitServer ==
  /\ IdleId
  /\ IdleBill
  /\ trend = NoTrend
  /\ analysis = NoAnalysis
  /\ receipt = NoReceipt
  /\ hook = NoHook
  /\ form = NoForm
  /\ dash = NoDash
  /\ app = NoApp
  /\ \E lowercases \in BOOLEAN :
       server = [users |-> {}, session |-> None, nextId |-> 1,
                 lowercases |-> lowercases, last |-> [op |-> ""]]

serverUnchanged == UNCHANGED <<idVars, billVars, trend, uiVars, dash, app>>

\* part_008 lines 46-112, with the auth users the two sign-ups create
handleSignup_backend(franchiseId, email, password) ==
  /\ server.nextId <= 2 * MaxSignups
  /\ \E profileError \in BOOLEAN, autoConfirm \in BOOLEAN :
       LET lc == server.lowercases
           frId == frIdOf(franchiseId)
           ld == localDomain(email)
           adminAlias == ld.local \o PLUS \o frId \o AT \o ld.domain
           storeEmail == STORE_DOT \o toLowerCase(frId) \o AT \o Domain_store
           adminUser == [id |-> server.nextId, email |-> storedEmail(lc, adminAlias),
                         password |-> password, kind |-> "admin", frid |-> frId]
           storeUser == [id |-> server.nextId + 1, email |-> storedEmail(lc, storeEmail),
                         password |-> password, kind |-> "store", frid |-> frId]
           signedUp == [server EXCEPT !.users = @ \cup {adminUser},
                                      !.nextId = @ + 1,
                                      !.session = IF autoConfirm THEN Some(adminUser.id)
                                                  ELSE @]
       IN server' =
            IF ld.local = << >> \/ ld.domain = << >>
              THEN [server EXCEPT !.last = [op |-> "handleSignup", alert |-> "Error"]]
            ELSE IF listUsers(lc, server.users, adminAlias) # {}
              THEN [server EXCEPT !.last = [op |-> "handleSignup", alert |-> "Error"]]
            ELSE IF profileError
              THEN [signedUp EXCEPT !.last = [op |-> "handleSignup", alert |-> "Error"]]
            ELSE IF listUsers(lc, server.users, storeEmail) # {}
              THEN [signedUp EXCEPT !.session = None,
                      !.last = [op |-> "handleSignup", alert |-> "Success"]]
            ELSE [signedUp EXCEPT !.users = @ \cup {storeUser},
                    !.nextId = @ + 1, !.session = None,
                    !.last = [op |-> "handleSignup", alert |-> "Success"]]
  /\ serverUnchanged

\* useAuth.ts lines 117-170: the sign-in of either user type; the route the
\* handler then takes leaves the auth users as they are
handleLogin_backend(userType, id, email, password) ==
  /\ LET ld == localDomain(email)
         loginEmail ==
           IF userType = "store"
           THEN STORE_DOT \o toLowerCase(frIdOf(id)) \o AT \o Domain_store
           ELSE ld.local \o PLUS \o frIdOf(id) \o AT \o ld.domain
         found == signInWithPassword(server.lowercases, server.users,
                                     loginEmail, password)
     IN server' =
          IF found = {}
            THEN [server EXCEPT !.last = [op |-> "handleLogin", alert |-> "Login Failed"]]
          ELSE [server EXCEPT !.session = Some((CHOOSE u \in found : TRUE).id),
                              !.last = [op |-> "handleLogin", alert |-> ""]]
  /\ serverUnchanged

\* part_013 lines 6-35: the response status and the users afterwards
update_store_password(lowercases, users, body, findErr, updateErr) ==
  IF body.storeEmail = << >> \/ body.newPassword = ""
    THEN [status |-> 400, users |-> users]
  ELSE LET found == listUsers(lowercases, users, body.storeEmail)
       IN IF findErr \/ found = {}
            THEN [status |-> 404, users |-> users]
          ELSE IF updateErr
            THEN [status |-> 500, users |-> users]
          ELSE LET u == CHOOSE u \in found : TRUE
               IN [status |-> 200,
                   users |-> (users \ {u}) \cup
                             {[u EXCEPT !.password = body.newPassword]}]

\* part_000 lines 46-98, with the remote function it invokes
handleAdminSave_backend(oldAdminPwd, newAdminPwd) ==
  /\ \E updErr \in BOOLEAN, findErr \in BOOLEAN, updateErr \in BOOLEAN,
        unreachable \in BOOLEAN :
       LET h == "handleAdminSave"
           lc == server.lowercases
           user == getUser(server.users, server.session)
           me == CHOOSE u \in user : TRUE
           signedIn == signInWithPassword(lc, server.users, me.email, oldAdminPwd)
           updated == (server.users \ {me}) \cup
                      {[me EXCEPT !.password = newAdminPwd]}
           storeEmail == derivedStoreEmail(me.email)
           reply == update_store_password(lc, updated,
                      [storeEmail |-> storeEmail, newPassword |-> newAdminPwd],
                      findErr, updateErr)
           failed == [op |-> h, alert |-> "Error"]
       IN server' =
            IF oldAdminPwd = "" \/ newAdminPwd = ""
              THEN [server EXCEPT !.last = failed]
            ELSE IF user = {} THEN [server EXCEPT !.last = failed]
            ELSE IF signedIn = {} THEN [server EXCEPT !.last = failed]
            ELSE IF updErr THEN [server EXCEPT !.last = failed]
            ELSE [server EXCEPT
                    !.users = IF unreachable THEN updated ELSE reply.users,
                    !.last = [op |-> h, alert |-> "Success", user |-> me.id,
                              newPassword |-> newAdminPwd,
                              storeEmail |-> storeEmail,
                              storeErr |-> unreachable \/ reply.status # 200]]
  /\ serverUnchanged

\* delete_user/index.ts lines 14-62: the response status and the users
\* afterwards.  The body is the parsed JSON, or absent when req.json throws
delete_user(lowercases, users, body, listErr, deleteErr) ==
  IF body = None THEN [status |-> 500, users |-> users]
  ELSE IF body[1].email = << >> THEN [status |-> 400, users |-> users]
  ELSE LET found == listUsers(lowercases, users, body[1].email)
       IN IF listErr \/ found = {}
            THEN [status |-> 404, users |-> users]
          ELSE IF deleteErr
            THEN [status |-> 500, users |-> users]
          ELSE [status |-> 200, users |-> users \ {CHOOSE u \in found : TRUE}]

\* the addresses a request to delete_user can carry
RequestEmails ==
  {<< >>, Local_plain \o AT \o Domain_x,
   Local_jane \o PLUS \o Stored_FR7 \o AT \o Domain_x,
   STORE_DOT \o toLowerCase(Stored_FR7) \o AT \o Domain_store}

\* a request to delete_user arrives; requester is the user whose token the
\* request carries, absent for a request without one
serve_delete_user(requester, body) ==
  /\ \E listErr \in BOOLEAN, deleteErr \in BOOLEAN :
       LET reply == delete_user(server.lowercases, server.users, body,
                                listErr, deleteErr)
       IN server' = [server EXCEPT
            !.users = reply.users,
            !.last = [op |-> "delete_user",
                      caller |-> IF requester = None THEN "none"
                                 ELSE (CHOOSE u \in server.users : u.id = requester[1]).kind,
                      body |-> body, status |-> reply.status,
                      before |-> server.users]]
  /\ serverUnchanged

NextServer ==
  \/ \E password \in Passwords :
       handleSignup_backend(TypedFranchiseId, TypedEmail, password)
  \/ \E userType \in {"store", "admin"}, password \in Passwords :
       handleLogin_backend(userType, TypedFranchiseId, TypedEmail, password)
  \/ \E oldPwd \in Passwords \cup {""}, newPwd \in Passwords :
       handleAdminSave_backend(oldPwd, newPwd)
  \/ \E requester \in {None} \cup {Some(u.id) : u \in server.users},
        body \in {None} \cup {Some([email |-> e]) : e \in RequestEmails} :
       serve_delete_user(requester, body)

SpecServer == InitServer /\ [][NextServer]_vars

----------------------------------------------------------------------------
(* Analytics screens: the load effect                                      *)
(*                                                                         *)
(* "predictive" is PredictiveAnalysisScreen (one query, then pie and       *)
(* recommendations), "overview" stands for SalesOverviewScreen and         *)
(* CentralFranchiseOverviewScreen, whose effects run the same sequence of  *)
(* queries.  The effect runs at mount and after every change of the date   *)
(* selection; each run is a load with the selection it captured and the    *)
(* await it is suspended at.  The store does not change while the screen   *)
(* is open: SalesOn(d) is what the queries answer for day d.               *)

MaxSelections == 2

SelectableDays == {1, 2}

SalesOn(d) ==
  IF d = 1
  THEN [revenue |-> 30, orders |-> 2, hours |-> <<9, 17>>,
        items |-> <<[item_name |-> "Tea", totalQty |-> 1],
                    [item_name |-> "Bun", totalQty |-> 3]>>]
  ELSE [revenue |-> 15, orders |-> 1, hours |-> <<9>>,
        items |-> <<[item_name |-> "Bun", totalQty |-> 1]>>]

\* hrsRaw.forEach(r => hrs[new Date(r.created_at).getHours()]++)
hourlyOrdersOf(hours) ==
  [h \in 0..23 |-> Cardinality({i \in DOMAIN hours : hours[i] = h})]

\* the pie payload: name and population of every item, largest first
pieOf(items) ==
  LET sorted == byTotalQty(items)
  IN [i \in DOMAIN sorted |->
        [name |-> sorted[i].item_name, population |-> sorted[i].totalQty]]

\* the await a load starts at
firstAwait(screen) ==
  IF screen = "predictive" THEN "getItemTotalsForDateRange"
  ELSE "getRevenueForDateRange"

NewLoad(screen, d) == [sel |-> d, pc |-> firstAwait(screen), rev |-> 0]

Figures0 == [revenue |-> 0, orders |-> 0, avgValue |-> 0,
             hourlyOrders |-> [h \in 0..23 |-> 0], dailySales |-> << >>,
             pieData |-> << >>, recs |-> << >>]

\* the screen after its first render: the effect has started its first load
InitDash ==
  /\ IdleId
  /\ IdleBill
  /\ trend = NoTrend
  /\ analysis = NoAnalysis
  /\ receipt = NoReceipt
  /\ hook = NoHook
  /\ form = NoForm
  /\ server = NoServer
  /\ app = NoApp
  /\ \E screen \in {"predictive", "overview"}, d \in SelectableDays :
       dash = [screen |-> screen, start |-> d,
               loads |-> <<NewLoad(screen, d)>>, shown |-> Figures0,
               alert |-> ""]

dashUnchanged == UNCHANGED <<idVars, billVars, trend, uiVars, server, app>>

\* onPick: the date picker confirms day d (setStart / setStartDate), and the effect
\* runs again
onPick(d) ==
  /\ Len(dash.loads) <= MaxSelections
  /\ dash' = [dash EXCEPT !.start = d,
                !.loads = Append(@, NewLoad(dash.screen, d))]
  /\ dashUnchanged

\* the state updates of a load whose await at pc returned
resumed(start, shown, load) ==
  LET data == SalesOn(load.sel)
  IN CASE load.pc = "getOrderCountForDateRange" ->
            [shown EXCEPT !.revenue = load.rev, !.orders = data.orders,
                          !.avgValue = IF data.orders > 0
                                       THEN load.rev \div data.orders ELSE 0]
       [] load.pc = "getBillRowsForDateRange" ->
            [shown EXCEPT !.hourlyOrders = hourlyOrdersOf(data.hours)]
       [] load.pc = "dailyTotals" ->
            [shown EXCEPT !.dailySales = <<data.revenue>>]
       [] load.pc = "getItemTotalsForDateRange" ->
            [shown EXCEPT !.pieData = pieOf(data.items),
                          !.recs = getRecommendations("layout", data.items)]
       [] OTHER -> shown

\* the same updates, made only by a load of the current selection
resumed_latestOnly(start, shown, load) ==
  IF load.sel # start THEN shown ELSE resumed(start, shown, load)

\* the await a load suspends at after pc
nextAwait(screen, pc) ==
  CASE pc = "getRevenueForDateRange" -> "getOrderCountForDateRange"
    [] pc = "getOrderCountForDateRange" -> "getBillRowsForDateRange"
    [] pc = "getBillRowsForDateRange" -> "dailyTotals"
    [] pc = "dailyTotals" -> "getItemTotalsForDateRange"
    [] OTHER -> "done"

\* the query load i waits for answers: the load runs on to its next await,
\* or into the catch block
load_resume(i) ==
  /\ dash.loads[i].pc \notin {"done", "threw"}
  /\ \E failed \in BOOLEAN :
       LET load == dash.loads[i]
       IN dash' =
            IF failed
              THEN [dash EXCEPT !.loads[i].pc = "threw", !.alert = "Error"]
            ELSE [dash EXCEPT
                    !.shown = resumed(dash.start, dash.shown, load),
                    !.loads[i].pc = nextAwait(dash.screen, load.pc),
                    !.loads[i].rev = IF load.pc = "getRevenueForDateRange"
                                     THEN SalesOn(load.sel).revenue ELSE @]
  /\ dashUnchanged

NextDash ==
  \/ \E d \in SelectableDays : onPick(d)
  \/ \E i \in DOMAIN dash.loads : load_resume(i)

SpecDash == InitDash /\ [][NextDash]_vars

----------------------------------------------------------------------------
(* Routes and the auth session: login, the Logout buttons, the index route *)
(*                                                                         *)
(* app.session is the session the auth client keeps on the device, which   *)
(* outlives a restart of the app; app.user and app.loading are what        *)
(* useAuth gives IndexRedirect; app.logout names the screen of the last    *)
(* Logout tap since the last login.                                        *)

MaxStarts == 2

\* the screens with a Logout button: settings.tsx, the settings screen of
\* part_001 and billing-history.tsx
LogoutScreens == {"/settings", "/central_settings", "/billing-history"}

InitApp ==
  /\ IdleId
  /\ IdleBill
  /\ trend = NoTrend
  /\ analysis = NoAnalysis
  /\ receipt = NoReceipt
  /\ hook = NoHook
  /\ form = NoForm
  /\ server = NoServer
  /\ dash = NoDash
  /\ app = [route |-> "/", session |-> None, user |-> None, loading |-> TRUE,
            logout |-> "", starts |-> 1]

appUnchanged == UNCHANGED <<idVars, billVars, trend, uiVars, server, dash>>

\* useAuth.ts lines 17-25 at the index route: getSession answers
loadSession ==
  /\ app.route = "/"
  /\ app.loading
  /\ app' = [app EXCEPT !.user = app.session, !.loading = FALSE]
  /\ appUnchanged

\* index.tsx lines 12-16
IndexRedirect ==
  /\ app.route = "/"
  /\ ~app.loading
  /\ app' = [app EXCEPT !.route = IF app.user # None THEN "/(tabs)/dashboard"
                                  ELSE "/login"]
  /\ appUnchanged

\* a successful handleLogin of user u
login(u) ==
  /\ app.route = "/login"
  /\ app' = [app EXCEPT !.session = Some(u.id), !.logout = "",
               !.route = IF u = User_store12 THEN "/(tabs)/dashboard"
                         ELSE FranchiseInfo(u, profileOf(u)).dashboardRoute]
  /\ appUnchanged

\* router.push to a screen with a Logout button
push(screen) ==
  /\ app.route \in {"/(tabs)/dashboard", AdminRoute, CentralRoute}
  /\ app' = [app EXCEPT !.route = screen]
  /\ appUnchanged

\* settings.tsx lines 31-34 and part_001 lines 47-50
handleLogout ==
  /\ app.route \in {"/settings", "/central_settings"}
  /\ app' = [app EXCEPT !.route = "/login", !.logout = app.route]
  /\ appUnchanged

\* part_004 lines 2888-2891
handleLogout_history ==
  /\ app.route = "/billing-history"
  /\ app' = [app EXCEPT !.session = None, !.route = "/login",
               !.logout = app.route]
  /\ appUnchanged

\* the app is closed and started again at the index route
restart ==
  /\ app.starts < MaxStarts
  /\ app' = [app EXCEPT !.route = "/", !.user = None, !.loading = TRUE,
               !.starts = @ + 1]
  /\ appUnchanged

NextApp ==
  \/ loadSession
  \/ IndexRedirect
  \/ \E u \in Users : login(u)
  \/ \E screen \in LogoutScreens : push(screen)
  \/ handleLogout
  \/ handleLogout_history
  \/ restart

SpecApp == InitApp /\ [][NextApp]_vars

----------------------------------------------------------------------------
(* Identity resolution: properties                                         *)

\* the profiles query has answered and getFranchiseId has returned or thrown
idReturned == idPc = "done" /\ nProfileQuery > 0

\* the identifier as the specification normalises it: upper-cased, without
\* an FR- prefix
normalizedId(fid) == replaceLeadingFR(toUpperCase(fid))

\* C1: when the profiles lookup yields a row with a non-empty franchise_id,
\* getFranchiseId returns exactly that stored value, the result is the same
\* for every email the account could have (the email is not consulted), and
\* a non-central value is routed to the admin dashboard.
C1_ProfileHit ==
  (idReturned /\ hasFranchiseId(idData)) =>
     /\ idResult.kind = "ok"
     /\ idResult.franchise_id = idData[1].franchise_id[1]
     /\ \A a \in Accts :
          FranchiseInfo([idUser EXCEPT !.email = EmailOf(a)], idData) = idResult
     /\ (normalizedId(idData[1].franchise_id[1]) # CENTRAL
           => idResult.dashboardRoute = AdminRoute)

\* the profile holds "FR-7", the email matches neither alias pattern, and the
\* call returned "FR-7" with the admin route
C1_Witness ==
  /\ idReturned
  /\ idData = Some([franchise_id |-> Some(Stored_FR7)])
  /\ acct.kind = "plain"
  /\ idResult.kind = "ok"
  /\ idResult.franchise_id = Stored_FR7
  /\ idResult.dashboardRoute = AdminRoute

\* C2: for every resolved identifier the route is the central dashboard
\* exactly when the identifier, upper-cased and without its FR- prefix in any
\* letter-case, equals CENTRAL, and the admin dashboard otherwise.
C2_CentralRouting ==
  (idReturned /\ idResult.kind = "ok") =>
     (idResult.dashboardRoute = CentralRoute
        <=> normalizedId(idResult.franchise_id) = CENTRAL)
     /\ idResult.dashboardRoute \in {CentralRoute, AdminRoute}

\* C3: with no profile franchise_id and an email store.<frid>@domain, the
\* returned franchise_id is <frid> upper-cased, for every <frid>.
C3_StoreFallback ==
  (idReturned /\ ~hasFranchiseId(idData) /\ acct.kind = "store") =>
     /\ idResult.kind = "ok"
     /\ idResult.franchise_id = toUpperCase(acct.frid)

\* C4: with no profile franchise_id and an email <local>+<frid>@domain that
\* does not start with "store.", the returned franchise_id is <frid>
\* upper-cased, for every <local>.
C4_AdminFallback ==
  (/\ idReturned
   /\ ~hasFranchiseId(idData)
   /\ acct.kind = "admin"
   /\ ~startsWith(acct.local, STORE_DOT)) =>
     /\ idResult.kind = "ok"
     /\ idResult.franchise_id = toUpperCase(acct.frid)

\* C5: with no profile franchise_id and an email that neither starts with
\* "store." nor contains "+" (or no email), getFranchiseId throws, yields no
\* franchise_id and no route, and has issued each lookup exactly once.
C5_Failure ==
  (idReturned /\ ~hasFranchiseId(idData) /\ acct.kind \in {"plain", "empty", "none"}) =>
     /\ idResult.kind = "error"
     /\ idResult.franchise_id = << >>
     /\ idResult.dashboardRoute = ""
     /\ nGetUser = 1
     /\ nProfileQuery = 1

\* no profile row, email plain@x.com, and the call threw
C5_Witness ==
  /\ idReturned
  /\ idData = None
  /\ profileRow = None
  /\ acct.kind = "plain"
  /\ idResult.kind = "error"

----------------------------------------------------------------------------
(* Bills: properties                                                       *)

\* the rows of bills_generated_billing that invocation c inserted
billRowsOf(c) == {b \in bills : calls[c].billId # 0 /\ b.id = calls[c].billId}

\* the item row of bill b for line i of invocation c is in the table
hasItemRow(b, c, i) ==
  \E r \in bill_items :
    /\ r.bill_id = b.id
    /\ r.menu_item_id = calls[c].items[i].menu_item_id
    /\ r.qty = calls[c].items[i].qty
    /\ r.price = calls[c].items[i].price

\* C6: once createGeneratedBill has finished, with whatever outcome, the bill
\* row it inserted (if any) is in the table together with all of its item
\* rows; no finished call leaves a bill row whose item rows are missing.
C6_AtomicBill ==
  \A c \in DOMAIN calls :
    calls[c].pc = "done" =>
      \A b \in billRowsOf(c) : \A i \in DOMAIN calls[c].items : hasItemRow(b, c, i)

\* the invocations made for preview p that inserted a header row
savedFor(p) == {c \in DOMAIN calls : calls[c].preview = p /\ calls[c].billId # 0}

\* C7: for one preview opened by generateBill at most one row is inserted
\* into bills_generated_billing, whatever taps follow.
C7_OneBillPerPreview ==
  \A p \in 1..previewNo : Cardinality(savedFor(p)) <= 1

\* the franchise_id of every row a read returned or aggregated
franchisesRead(r) ==
  {b.franchise_id : b \in r.bills} \cup {i.franchise_id : i \in r.items}
    \cup {m.franchise_id : m \in r.menu}

\* C8: a read operation run by a session that resolves to a franchise F
\* other than the central one returns and aggregates only rows whose
\* franchise_id is F, with or without a franchise override.
C8_TenancyBoundary ==
  (/\ lastRead.op # "none"
   /\ lastRead.caller # None
   /\ normalizedId(lastRead.caller[1]) # CENTRAL) =>
     franchisesRead(lastRead) \subseteq {lastRead.caller[1]}

\* C9: no operation of the client removes or changes a row of
\* bills_generated_billing or bill_items_generated_billing: every step keeps
\* every row of both tables, field for field.
C9_BillsImmutable ==
  [][bills \subseteq bills' /\ bill_items \subseteq bill_items']_vars

\* a bill was saved with its item, the menu item it was sold from has since
\* been deleted, and a later export still returns the bill and the item
C9_Witness ==
  /\ bills # {}
  /\ \E r \in bill_items : \A m \in menu_items : m.id # r.menu_item_id
  /\ lastRead.op = "getAllBillingData"
  /\ lastRead.bills # {}
  /\ lastRead.items # {}

----------------------------------------------------------------------------
(* Trend estimator: properties                                             *)

\* the last N recorded days of a dayMap
lastDays(dayMap, N) ==
  {d \in DOMAIN dayMap : Cardinality({e \in DOMAIN dayMap : e > d}) < N}

\* the sign of the least-squares slope of quantity against day index 0..n-1
\* over the days T is the sign of n * sum(i * y) - sum(i) * sum(y)
olsSlopeNumerator(dayMap, T) ==
  LET index(d) == Cardinality({e \in T : e < d})
      n == Cardinality(T)
  IN n * SumSet({<<d, index(d) * dayMap[d]>> : d \in T})
       - SumSet({<<d, index(d)>> : d \in T}) * SumSet({<<d, dayMap[d]>> : d \in T})

\* C10: for an item with at least 2 recorded days in the window,
\* getRecommendations emits "trending up" exactly when the least-squares
\* slope over the last lookbackDays recorded days is > 0, and "flat or
\* declining" otherwise.
C10_TrendClassification ==
  LET T == lastDays(trend.dayMap, trend.lookbackDays)
  IN (trend.pc = "done" /\ Cardinality(T) >= 2) =>
       /\ trend.recommendation \in {Some(TrendingUp), Some(FlatOrDeclining)}
       /\ trend.recommendation = Some(TrendingUp)
            <=> olsSlopeNumerator(trend.dayMap, T) > 0

\* the quantities of the window, oldest day first
windowQty(dayMap, T) ==
  [i \in 1..Cardinality(T) |->
     dayMap[CHOOSE d \in T : Cardinality({e \in T : e < d}) = i - 1]]

\* C11: an item whose quantities over the lookback window are strictly
\* increasing, with at least 2 days in the window, gets the "trending up"
\* recommendation.
C11_IncreasingTrendsUp ==
  LET T == lastDays(trend.dayMap, trend.lookbackDays)
      y == windowQty(trend.dayMap, T)
  IN (/\ trend.pc = "done"
      /\ Len(y) >= 2
      /\ \A i \in 1..(Len(y) - 1) : y[i] < y[i + 1]) =>
       trend.recommendation = Some(TrendingUp)

\* quantities 1,2,3,4,5 over a 5-day window were classified as trending up
C11_Witness ==
  /\ trend.pc = "done"
  /\ trend.dayMap = <<1, 2, 3, 4, 5>>
  /\ trend.lookbackDays = DefaultLookbackDays
  /\ trend.recommendation = Some(TrendingUp)

\* C12: an item whose quantities over the lookback window are all equal, with
\* at least 2 days in the window, has slope 0 and gets the "flat or
\* declining" recommendation, never "trending up".
C12_FlatSeries ==
  LET T == lastDays(trend.dayMap, trend.lookbackDays)
      y == windowQty(trend.dayMap, T)
  IN (/\ trend.pc = "done"
      /\ Len(y) >= 2
      /\ \A i \in 1..Len(y) : y[i] = y[1]) =>
       /\ slopeSign(trend.dayMap, trend.lookbackDays) = 0
       /\ trend.recommendation = Some(FlatOrDeclining)

\* quantities 3,3,3,3 were classified as flat or declining
C12_Witness ==
  /\ trend.pc = "done"
  /\ trend.dayMap = <<3, 3, 3, 3>>
  /\ trend.lookbackDays = DefaultLookbackDays
  /\ trend.recommendation = Some(FlatOrDeclining)

\* varx as lines 1246-1257 compute it for a window of n days (it depends on
\* the day indices alone)
windowVarx ==
  [n \in 2..MaxTrendDays |->
     LET xs == [i \in 1..n |-> fromInt(i - 1)]
         xBar == fdiv(reduceSum(xs, fromInt(0)), n)
     IN covVar(xs, xs, xBar, xBar, 1, [cov |-> fromInt(0), varx |-> fromInt(0)]).varx]

\* C13 as stated: an item with fewer than 2 recorded days gets no
\* recommendation and every item with 2 or more recorded days gets exactly
\* one.
C13_AsStated ==
  trend.pc = "done" =>
    (Len(trend.dayMap) < 2 <=> trend.recommendation = None)

\* C13, amended: an item gets no recommendation when fewer than 2 of its
\* recorded days fall in the lookback window (the last lookbackDays recorded
\* days), and exactly one otherwise; whenever one is emitted the window has
\* at least 2 days and the denominator varx of the slope is not zero.
C13_InsufficientData ==
  LET T == lastDays(trend.dayMap, trend.lookbackDays)
  IN trend.pc = "done" =>
       /\ Cardinality(T) < 2 => trend.recommendation = None
       /\ Cardinality(T) >= 2 =>
            /\ trend.recommendation \in {Some(TrendingUp), Some(FlatOrDeclining)}
            /\ ~isZero(windowVarx[Cardinality(T)])

\* one recorded day gave no recommendation
C13_Witness ==
  /\ trend.pc = "done"
  /\ Len(trend.dayMap) = 1
  /\ trend.lookbackDays = DefaultLookbackDays
  /\ trend.recommendation = None

----------------------------------------------------------------------------
(* Heuristic recommendations: properties                                   *)

\* the strategies that recommend the item, as positions in the priority
\* order of out
recommenders(out, item) ==
  {s \in DOMAIN out : \E i \in DOMAIN out[s] : out[s][i].item = item}

\* C14: getRecommendations returns at most one recommendation per item name,
\* the one of the earliest strategy (trending, weekend, morning, below 70% of
\* the average) that recommends the item; the list is in non-increasing
\* order of confidence, every confidence lies in 0..100, and an empty input
\* gives an empty list.
C14_Heuristics ==
  analysis.pc = "shown" =>
    LET recs == analysis.recs
        out == strategyOutputs(analysis.screen, analysis.data)
    IN /\ \A i, j \in DOMAIN recs : recs[i].item = recs[j].item => i = j
       /\ \A i \in DOMAIN recs :
            LET S == recommenders(out, recs[i].item)
            IN /\ S # {}
               /\ \E s \in S : /\ \A t \in S : s <= t
                               /\ \E k \in DOMAIN out[s] : out[s][k] = recs[i]
       /\ \A i, j \in DOMAIN recs : i < j => recs[i].confidence >= recs[j].confidence
       /\ \A i \in DOMAIN recs : recs[i].confidence \in 0..100
       /\ analysis.data = << >> => recs = << >>

\* four items, the last one outside the top three and recommended by the
\* weekend, the morning and the below-average strategy: it is listed once,
\* with the weekend text, between the trending items of confidence 100 and 33
C14_Witness ==
  /\ analysis.pc = "shown"
  /\ analysis.screen = "predictive"
  /\ Len(analysis.data) = 4
  /\ recommenders(strategyOutputs(analysis.screen, analysis.data),
                  ItemNames[4]) = {2, 3, 4}
  /\ Len(analysis.recs) = 4
  /\ analysis.recs[1].confidence = 100
  /\ analysis.recs[2] = [item |-> ItemNames[4],
                         recommendation |->
                           <<"", ItemNames[4],
                             " sells well on weekends-feature it in weekend specials.">>,
                         confidence |-> 75]
  /\ analysis.recs[4].confidence = 33

----------------------------------------------------------------------------
(* The receipt text: properties                                            *)

\* the lines of a text, without their line ends
linesOf(t) ==
  LET nl == {i \in 1..Len(t) : SubSeq(t, i, i) = "\n"}
      ends == nl \cup (IF t # "" /\ Len(t) \notin nl THEN {Len(t) + 1} ELSE {})
      from(p) == 1 + Cardinality({i \in 1..(p - 1) :
                                    \E q \in nl : q < p /\ i <= q})
  IN [k \in 1..Cardinality(ends) |->
        LET p == CHOOSE e \in ends : Cardinality({q \in ends : q < e}) = k - 1
        IN SubSeq(t, from(p), p - 1)]

\* the printed row of the k-th preview item: the k-th line after the first
\* line of dashes
printedRow(k) ==
  LET ls == linesOf(receipt.text)
      d == CHOOSE i \in DOMAIN ls :
             /\ ls[i] = "------------------------"
             /\ \A j \in 1..(i - 1) : ls[j] # ls[i]
  IN ls[d + k]

\* C15: in every item row a name longer than 16 characters is printed as its
\* first 13 characters followed by "...", a name of at most 16 characters is
\* printed in full and padded with spaces on the right; the name field is 16
\* characters wide for every item.
C15_NameField ==
  receipt.pc = "built" =>
    \A k \in DOMAIN receipt.items :
      LET name == receipt.items[k].name
          field == SubSeq(printedRow(k), 1, 16)
      IN /\ Len(field) = 16
         /\ Len(name) > 16 => field = SubSeq(name, 1, 13) \o "..."
         /\ Len(name) <= 16 =>
              /\ SubSeq(field, 1, Len(name)) = name
              /\ \A c \in (Len(name) + 1)..16 : SubSeq(field, c, c) = " "

\* a receipt with the 20-character name, printed as 13 characters and "..."
C15_Witness ==
  /\ receipt.pc = "built"
  /\ Len(receipt.items) = 2
  /\ receipt.items[1].name = "Chocolate Milk Shake"
  /\ receipt.items[2].name = "Tea"
  /\ SubSeq(printedRow(1), 1, 16) = "Chocolate Mil..."
  /\ SubSeq(printedRow(2), 1, 16) = "Tea             "

\* C16: every item row is name(16) qty(3) "  ₹" amount(7), the TOTAL line
\* shows the amount with two decimals in a field of 7 characters, the row
\* width is the same for every cart, and no line is longer than 32
\* characters.
C16_RowLayout ==
  receipt.pc = "built" =>
    LET ls == linesOf(receipt.text)
    IN /\ \A k \in DOMAIN receipt.items :
            LET row == printedRow(k)
                item == receipt.items[k]
            IN /\ Len(row) = 16 + 3 + 3 + 7
               /\ SubSeq(row, 17, 19) = padStart(toString(item.qty), 3)
               /\ SubSeq(row, 20, 22) = "  ₹"
               /\ SubSeq(row, 23, 29) = padStart(toFixed2(item.price * item.qty), 7)
       /\ \E i \in DOMAIN ls :
            /\ Len(ls[i]) = 14 + 7
            /\ SubSeq(ls[i], 1, 14) = "TOTAL:       ₹"
            /\ receipt.total = 12340 => SubSeq(ls[i], 14, 21) = "₹ 123.40"
       /\ \A i \in DOMAIN ls : Len(ls[i]) <= lineWidth

----------------------------------------------------------------------------
(* useAuth: properties                                                     *)

\* one of the two callbacks runs in this step
callbackFires ==
  \/ hook.getSession = "pending" /\ hook'.getSession = "done"
  \/ Len(hook'.queue) < Len(hook.queue)

\* C17: after the component has unmounted no getSession response and no
\* auth-state-change notification changes user or loading; while it is
\* mounted the first callback that runs sets loading to false, and loading
\* stays false.
C17_UnmountFlag ==
  [][/\ ~hook.mounted => hook'.user = hook.user /\ hook'.loading = hook.loading
     /\ (hook.mounted /\ callbackFires) => ~hook'.loading
     /\ ~hook.loading => ~hook'.loading]_vars

\* the component unmounted before anything arrived; the getSession response
\* and two notifications came afterwards and left user and loading alone
C17_Witness ==
  /\ ~hook.mounted
  /\ hook.getSession = "done"
  /\ hook.emitted = MaxAuthEvents /\ hook.queue = << >>
  /\ hook.session = Some("u1")
  /\ hook.user = None /\ hook.loading

----------------------------------------------------------------------------
(* The forms: properties                                                   *)

\* the last run raised an alert with this title
alerted(title) == \E i \in DOMAIN form.last.alerts : form.last.alerts[i][1] = title

\* C18: in the change-password flow every backend call that returns an error
\* (getUser, the re-authentication, updateUser, the update_store_password
\* sync) leads to an Error alert and to no Success alert, and no call is
\* issued a second time.
C18_FailuresAlert ==
  form.last.handler \in {"handleAdminSave", "handleSave"} =>
    LET issued == form.last.calls
    IN /\ (\E i \in DOMAIN issued : issued[i].error # None) =>
            alerted("Error") /\ ~alerted("Success")
       /\ \A i, j \in DOMAIN issued : issued[i].fn = issued[j].fn => i = j

\* a text field left empty
blank(text) == Len(text) = 0

\* an email without "@", or with nothing before or after it
malformed(email) ==
  LET i == indexOf(email, AT) IN i = 0 \/ i = 1 \/ i = Len(email)

\* the fields the handler of the screen requires
missingField ==
  CASE form.screen = "login" /\ form.userType = "store" ->
         blank(form.storeId) \/ blank(form.password)
    [] form.screen = "login" /\ form.userType = "admin" ->
         \/ blank(form.franchiseId) \/ blank(form.email) \/ blank(form.password)
         \/ malformed(form.email)
    [] form.screen = "signup" ->
         \/ blank(form.name) \/ blank(form.franchiseId) \/ blank(form.email)
         \/ blank(form.password) \/ malformed(form.email)
    [] OTHER -> blank(form.oldPwd) \/ blank(form.newPwd)

\* C19: when a required field is empty or the email is malformed, handleLogin
\* (store and admin), handleSignup and the change-password save handlers
\* show an alert and issue no authentication or database call.
C19_ValidationFirst ==
  (form.last.handler # "" /\ missingField) =>
    form.last.alerts # << >> /\ form.last.calls = << >>

\* C20: whenever signInWithPassword returns an error to handleLogin, for a
\* store or an admin, the alert reads "Invalid login credentials" whatever
\* the error was, and no route is replaced.
C20_GenericCredentialError ==
  (/\ form.last.handler = "handleLogin"
   /\ form.last.calls # << >>
   /\ form.last.calls[1].error # None) =>
    /\ form.last.alerts = <<<<"Login Failed", "Invalid login credentials">>>>
    /\ form.last.route = None

\* an admin whose sign-in is refused for an unconfirmed email is told
\* "Invalid login credentials"
C20_Witness ==
  /\ form.last.handler = "handleLogin"
  /\ form.userType = "admin"
  /\ Len(form.last.calls) = 1
  /\ form.last.calls[1].fn = "auth.signInWithPassword"
  /\ form.last.calls[1].error = Some("Email not confirmed")
  /\ form.last.alerts = <<<<"Login Failed", "Invalid login credentials">>>>
  /\ form.last.route = None

----------------------------------------------------------------------------
(* Sign-up: the store account that exists already                          *)

\* the last run is a sign-up whose third call, the store sign-up, failed
storeSignUpFailed ==
  /\ form.last.handler = "handleSignup"
  /\ Len(form.last.calls) >= 3
  /\ form.last.calls[3].fn = "auth.signUp"
  /\ form.last.calls[3].error # None

\* the message of that failure, lower-cased, names an existing account
namesExistingAccount ==
  LET m == toLowerCase(chars(form.last.calls[3].error[1]))
  IN includes(m, chars("already registered")) \/ includes(m, chars("duplicate"))

\* C21: when the store sign-up of handleSignup fails with a message that,
\* lower-cased, contains "already registered" or "duplicate", the run goes on
\* to the sign-out, the Success alert and the login route; when it fails
\* with any other message the run ends with one Error alert, no Success
\* alert and no navigation.
C21_DuplicateStoreRecovery ==
  storeSignUpFailed =>
    IF namesExistingAccount
    THEN /\ form.last.calls[Len(form.last.calls)].fn = "auth.signOut"
         /\ alerted("Success")
         /\ ~alerted("Error")
         /\ form.last.route = Some("/login")
    ELSE /\ Len(form.last.calls) = 3
         /\ Len(form.last.alerts) = 1
         /\ alerted("Error")
         /\ ~alerted("Success")
         /\ form.last.route = None

\* a store sign-up refused with a capitalised "Duplicate" message was
\* followed by the success path
C21_Witness ==
  /\ storeSignUpFailed
  /\ form.last.calls[3].error = Some("Duplicate email")
  /\ alerted("Success")

\* a store sign-up refused for another reason ended the run
C21_WitnessOther ==
  /\ storeSignUpFailed
  /\ ~namesExistingAccount
  /\ alerted("Error")

----------------------------------------------------------------------------
(* Remote functions: properties                                            *)

\* the users the last delete_user request removed
deletedUsers == server.last.before \ server.users

\* C22: delete_user deletes an account only when the request comes from an
\* admin caller: a request from an unauthenticated or non-admin caller
\* deletes nothing, even when it carries the email of an existing user; and
\* every request deletes at most one account, the one the email lookup found.
C22_AdminOnly ==
  server.last.op = "delete_user" =>
    /\ server.last.caller # "admin" => deletedUsers = {}
    /\ Cardinality(deletedUsers) <= 1
    /\ \A u \in deletedUsers :
         u.email = storedEmail(server.lowercases, server.last.body[1].email)

\* the second half of C22 alone: at most one account per request, and it is
\* the account kept under the email of the request
C22_AtMostOne ==
  server.last.op = "delete_user" =>
    /\ Cardinality(deletedUsers) <= 1
    /\ \A u \in deletedUsers :
         u.email = storedEmail(server.lowercases, server.last.body[1].email)

\* a request deleted one of several accounts
C22_DeletedOne ==
  /\ server.last.op = "delete_user"
  /\ Cardinality(server.last.before) >= 2
  /\ Cardinality(deletedUsers) = 1

\* the admin whose change-password run reported success
savedAdmin == {u \in server.users : /\ u.id = server.last.user
                                    /\ u.kind = "admin"}

\* C23: after an admin's change-password flow reports success, the password
\* of the store account of the same franchise equals the admin's new
\* password, and the store email the flow derives from the admin alias is
\* the address signup and store login construct for that franchise.
C23_StorePasswordSynced ==
  (server.last.op = "handleAdminSave" /\ server.last.alert = "Success") =>
    \A a \in savedAdmin :
      /\ server.last.storeEmail =
           STORE_DOT \o toLowerCase(a.frid) \o AT \o Domain_store
      /\ \A s \in server.users :
           (s.kind = "store" /\ s.frid = a.frid) =>
             s.password = server.last.newPassword

\* the same for the runs whose remote call reported no error
C23_SyncedWhenNoStoreErr ==
  (/\ server.last.op = "handleAdminSave"
   /\ server.last.alert = "Success"
   /\ ~server.last.storeErr) =>
    \A a \in savedAdmin :
      \A s \in server.users :
        (s.kind = "store" /\ s.frid = a.frid) =>
          s.password = server.last.newPassword

\* an admin changed the password while the store account existed and the
\* remote call reported no error
C23_SyncedOnce ==
  /\ server.last.op = "handleAdminSave"
  /\ server.last.alert = "Success"
  /\ ~server.last.storeErr
  /\ \E a \in savedAdmin : \E s \in server.users :
       s.kind = "store" /\ s.frid = a.frid

----------------------------------------------------------------------------
(* Spreadsheet export: properties                                          *)

\* the bills a handler of the new-bill screen saved, header and items
screenBills ==
  {calls[c].billId : c \in {k \in DOMAIN calls :
      /\ calls[k].origin \in {"finalizeBill", "handlePaymentMethodSelect"}
      /\ calls[k].outcome = "returned"}}

\* the rows of the last export that belong to bill id
rowsOf(id) == {r \in lastRead.rows : r.Bill_ID = id}

\* the price of the menu item a row names
unitPriceOf(r) == (CHOOSE m \in menu_items : m.name = r.Item_Name).price

\* C24: for every bill saved through the new-bill screen and then exported
\* there is one row per line item, its unit-price column holds the item's
\* unit price, its line subtotal is quantity x unit price, and the subtotals
\* of the bill's rows sum to the bill's total column.
C24_ExportRows ==
  lastRead.op = "exportToExcel" =>
    \A id \in screenBills :
      /\ Cardinality(rowsOf(id)) =
           Cardinality({it \in bill_items : it.bill_id = id})
      /\ \A r \in rowsOf(id) :
           /\ r.Price = unitPriceOf(r)
           /\ r.Subtotal = r.Quantity * unitPriceOf(r)
           /\ r.Total_Bill_Amount =
                SumSet({<<x.Item_ID, x.Subtotal>> : x \in rowsOf(id)})

\* what does hold: one row per stored line item, each carrying the stored
\* price and the bill's total
C24_OneRowPerItem ==
  lastRead.op = "exportToExcel" =>
    \A id \in screenBills :
      /\ Cardinality(rowsOf(id)) =
           Cardinality({it \in bill_items : it.bill_id = id})
      /\ \A r \in rowsOf(id) :
           /\ r.Price = r.Quantity * unitPriceOf(r)
           /\ \E b \in bills : b.id = id /\ b.total = r.Total_Bill_Amount

\* a bill with a line of two units was saved by the screen and exported
C24_Exported ==
  /\ lastRead.op = "exportToExcel"
  /\ \E id \in screenBills : \E r \in rowsOf(id) : r.Quantity = 2

----------------------------------------------------------------------------
(* createGeneratedBill: the two inserts                                    *)

\* the header insert of call c fails in this step
billInsertFails(c) == calls[c].pc = "insertBill" /\ calls'[c].outcome = "threw"

\* the item insert of call c fails in this step
itemInsertFails(c) == calls[c].pc = "insertItems" /\ calls'[c].outcome = "threw"

\* the bill row of call c is stored and no item row refers to it
headerOnly(c) ==
  /\ \E b \in bills : b.id = calls[c].billId
  /\ ~\E r \in bill_items : r.bill_id = calls[c].billId

\* C25: in createGeneratedBill the item insert is issued only after the
\* header insert succeeded and returned an id; when the item insert fails the
\* call throws, the inserted bill row stays in the store without item rows
\* and neither a compensating delete nor a retry is issued; when the header
\* insert fails no item insert is issued.
C25_PartialWrite ==
  [][\A c \in DOMAIN calls :
       /\ calls'[c].pc = "insertItems" =>
            /\ calls'[c].billId # 0
            /\ \E b \in bills' : b.id = calls'[c].billId
       /\ itemInsertFails(c) =>
            /\ calls'[c].pc = "done"
            /\ bills' = bills /\ bill_items' = bill_items
            /\ headerOnly(c)'
       /\ billInsertFails(c) =>
            /\ calls'[c].pc = "done"
            /\ calls'[c].billId = 0
            /\ bills' = bills /\ bill_items' = bill_items
       /\ (calls[c].pc = "done" /\ calls[c].outcome = "threw") =>
            /\ calls'[c] = calls[c]
            /\ calls[c].billId # 0 => headerOnly(c)']_vars

\* a call ended by a failed item insert, its bill row still stored without
\* items
C25_Witness ==
  \E c \in DOMAIN calls :
    /\ calls[c].pc = "done"
    /\ calls[c].outcome = "threw"
    /\ calls[c].billId # 0
    /\ headerOnly(c)

----------------------------------------------------------------------------
(* NewBillScreen: the cart invariant                                       *)

\* at most one line per menu item id, every line with qty >= 1
wellFormedCart(cart) ==
  /\ \A i, j \in DOMAIN cart : cart[i].id = cart[j].id => i = j
  /\ \A i \in DOMAIN cart : cart[i].qty >= 1

RECURSIVE sumLines(_)
sumLines(lines) ==
  IF lines = << >> THEN 0
  ELSE Head(lines).price * Head(lines).qty + sumLines(Tail(lines))

\* C26: after any sequence of addToBill, updateQty (+1 or -1) and removeItem
\* the cart holds at most one line per menu item id and every line has
\* qty >= 1; adding an item already in the cart raises its qty by 1 and
\* leaves all other lines unchanged; generateBill on a non-empty cart copies
\* it to the preview with total = sum of price x qty and empties the cart,
\* and on an empty cart changes neither cart nor preview.
C26_CartInvariant ==
  [][/\ wellFormedCart(billItems')
     /\ \A item \in menuItems :
          (addToBill(item) /\ inCart(item.id)) =>
            /\ Len(billItems') = Len(billItems)
            /\ \A i \in DOMAIN billItems :
                 billItems'[i] =
                   IF billItems[i].id = item.id
                     THEN [billItems[i] EXCEPT !.qty = billItems[i].qty + 1]
                     ELSE billItems[i]
     /\ (generateBill /\ billItems # << >>) =>
          /\ previewItems' = billItems
          /\ previewTotal' = sumLines(billItems)
          /\ showBillModal'
          /\ billItems' = << >>
     /\ (generateBill /\ billItems = << >>) =>
          UNCHANGED <<billItems, previewItems, previewTotal, showBillModal>>]_vars

\* a cart of two lines, one of them raised to two units, was previewed
C26_Witness ==
  /\ showBillModal
  /\ billItems = << >>
  /\ Len(previewItems) = 2
  /\ \E i \in DOMAIN previewItems : previewItems[i].qty = 2
  /\ previewTotal = sumLines(previewItems)

----------------------------------------------------------------------------
(* Login: the alias handleLogin builds, read back by getFranchiseId        *)

\* handleLogin passed its validation and signed in with an address
loginIssued ==
  /\ form.last.handler = "handleLogin"
  /\ Len(form.last.calls) >= 1

\* the email fallback of getFranchiseId on the address of the sign-in, for
\* an account without a profiles row
fallbackOfLogin ==
  fullId([id |-> "u", email |-> Some(form.last.calls[1].arg)], None)

\* the identifier typed on the login screen, normalised as handleLogin does
typedFrId ==
  frIdOf(IF form.userType = "store" THEN form.storeId ELSE form.franchiseId)

\* C27: for every store ID handleLogin accepts, the email fallback of
\* getFranchiseId applied to the address handleLogin builds yields the
\* normalised identifier FR-<id>; and for every franchise ID and email
\* local@domain accepted by admin login, the fallback applied to
\* local+FR-<id>@domain yields FR-<id>, whatever the local part.
C27_AliasRoundTrip ==
  loginIssued => fallbackOfLogin = Some(typedFrId)

\* the round trip for local parts without "+" that do not begin with
\* "store."
C27_PlainLocalRoundTrip ==
  (/\ loginIssued
   /\ form.userType = "admin" =>
        /\ ~includes(localDomain(form.email).local, PLUS)
        /\ ~startsWith(localDomain(form.email).local, STORE_DOT)) =>
    fallbackOfLogin = Some(typedFrId)

\* an admin login with a local part containing "+" was issued
C27_PlusLocal ==
  /\ loginIssued
  /\ form.userType = "admin"
  /\ includes(localDomain(form.email).local, PLUS)

----------------------------------------------------------------------------
(* Analytics screens: properties                                           *)

\* every load the effect started has run to its end without an error
allLoaded == \A i \in DOMAIN dash.loads : dash.loads[i].pc = "done"

\* the figures a single load for day d leaves on the screen
figuresOf(screen, d) ==
  LET data == SalesOn(d)
      pie == [pieData |-> pieOf(data.items),
              recs |-> getRecommendations("layout", data.items)]
  IN IF screen = "predictive"
       THEN [revenue |-> 0, orders |-> 0, avgValue |-> 0,
             hourlyOrders |-> [h \in 0..23 |-> 0], dailySales |-> << >>] @@ pie
     ELSE [revenue |-> data.revenue, orders |-> data.orders,
           avgValue |-> data.revenue \div data.orders,
           hourlyOrders |-> hourlyOrdersOf(data.hours),
           dailySales |-> <<data.revenue>>] @@ pie

\* C28: on the sales-overview and predictive-analysis screens, when the date
\* selection changes while an earlier load is in flight, then once all
\* responses have arrived the displayed figures are those of the most recent
\* selection, in every order of arrival.
C28_NoStaleAnalytics ==
  (dash.screen # "" /\ allLoaded) =>
    dash.shown = figuresOf(dash.screen, dash.start)

\* without a change of the selection the figures are those of the selection
C28_SingleLoad ==
  (dash.screen # "" /\ allLoaded /\ Len(dash.loads) = 1) =>
    dash.shown = figuresOf(dash.screen, dash.start)

\* the selection changed during a load and all responses have arrived
C28_Changed ==
  /\ dash.screen # ""
  /\ allLoaded
  /\ Len(dash.loads) >= 2
  /\ dash.loads[1].sel # dash.start

----------------------------------------------------------------------------
(* NewBillScreen: receipt and saved bill                                   *)

\* createGeneratedBill returned for preview p: header and items are stored
persistedFor(p) ==
  {c \in DOMAIN calls : /\ calls[c].preview = p
                        /\ calls[c].outcome = "returned"
                        /\ \E b \in bills : b.id = calls[c].billId}

\* C29: on the new-bill screen a receipt reaches the printer or the share
\* sheet only for a preview whose bill createGeneratedBill has persisted: no
\* sequence of taps prints a receipt and closes the preview while no bill
\* row for it exists, and a failed save never leads to a printed receipt.
C29_ReceiptImpliesSaved ==
  \A p \in printed : persistedFor(p) # {}

\* the same on the screen with the payment buttons alone
C29_PaymentScreen ==
  variant = "pay" => \A p \in printed : persistedFor(p) # {}

\* a receipt was sent from the screen with the payment buttons
C29_PaidAndPrinted ==
  variant = "pay" /\ printed # {}

----------------------------------------------------------------------------
(* Logout: properties                                                      *)

\* C30: after any Logout action (settings screens or billing history) the
\* auth session is cleared before the navigation to /login, so a following
\* start of the app at the index route finds no user and redirects to
\* /login, not to the dashboard.
C30_LogoutEndsSession ==
  app.logout # "" =>
    /\ app.session = None
    /\ app.route \in {"/login", "/"}
    /\ (app.route = "/" /\ ~app.loading) => app.user = None

\* the same for the Logout button of the billing history alone
C30_HistoryLogout ==
  app.logout = "/billing-history" =>
    /\ app.session = None
    /\ app.route \in {"/login", "/"}
    /\ (app.route = "/" /\ ~app.loading) => app.user = None

\* after a Logout on the billing history the app was started again and
\* redirected to the login screen
C30_HistoryRestarted ==
  /\ app.logout = "/billing-history"
  /\ app.starts = 2
  /\ app.route = "/login"

====
